---- MODULE Spec2Model ----
(***************************************************************************)
(* A model of the llmhive operator (src/server/server.py): the Registry,   *)
(* the JobQueue, the table of SSE push channels, the job ledger and the    *)
(* request handlers of the FastAPI application.                            *)
(*                                                                         *)
(* The Python objects `registry`, `job_queue` and `sse_connections` are    *)
(* variables holding the object's fields; every method is an operator from *)
(* the object's value (and the wall clock) to its new value, and every     *)
(* request handler is an action built from those operators.  A Python dict *)
(* is a function whose DOMAIN is its key set; a Python list is a sequence. *)
(***************************************************************************)
EXTENDS Integers, Sequences, FiniteSets, TLC

(***************************************************************************)
(* Bounds of the model and the values requests are drawn from.             *)
(***************************************************************************)
MaxTime == 3

NodeIds == {"W1", "W2"}

Models == {"a", "b"}

None == "None"

Addresses == {"addr1"}

\* the `models` lists of registrations: none, one model, several, a repeated name
ModelLists == {<<>>, <<"a">>, <<"b">>, <<"a", "b">>, <<"a", "a">>}

Range(s) == {s[i] : i \in DOMAIN s}

EmptyDict == [x \in {} |-> None]

Put(d, k, v) == [x \in DOMAIN d \cup {k} |-> IF x = k THEN v ELSE d[x]]

Get(d, k, default) == IF k \in DOMAIN d THEN d[k] ELSE default

(***************************************************************************)
(* health_check_interval of config.json, in ticks of the model's clock     *)
(* (one tick of `now` stands for one interval of the liveness loop).       *)
(***************************************************************************)
HealthCheckInterval == 1

VARIABLES
    registry,         \* Registry: nodes, model_to_nodes, round_robin_index
    job_queue,        \* JobQueue: jobs, pending
    sse_connections,  \* node_id -> asyncio.Queue, in insertion order
    streams,          \* the open /stream requests: node_id, its queue, the events sent
    db,               \* the ledger: table `job` of models.py, by job_id
    payments,         \* table `payment` of models.py, by job_id
    relays,           \* the stream_chunks generator of each accepted /inference
    health,           \* health_check_task: where it is suspended, what it has left
    now,              \* datetime.now(), in ticks
    pushed,           \* history: job_id -> the node whose queue received the job
    last_op           \* history: the last operation and what it returned

vars ==
    <<registry, job_queue, sse_connections, streams, db, payments, relays, health, now, pushed,
      last_op>>

\* everything but the Registry, the clock and last_op
outside_registry == <<job_queue, sse_connections, streams, db, payments, relays, health, pushed>>

(***************************************************************************)
(* class Registry                                                          *)
(*                                                                         *)
(* nodes            : node_id -> NodeInfo (models, concordium_address,     *)
(*                    last_seen; url is only read by the health probe)     *)
(* model_to_nodes   : model -> list of NodeInfo.  Only the node_id of a    *)
(*                    list entry is ever read (register_node,              *)
(*                    prune_stale_nodes) and the caller of                 *)
(*                    get_node_for_model only tests the result for None,   *)
(*                    so an entry is represented by its node_id.           *)
(* round_robin_index: model -> cursor                                      *)
(***************************************************************************)
Registry_init ==
    [nodes |-> EmptyDict, model_to_nodes |-> EmptyDict, round_robin_index |-> EmptyDict]

\* NodeInfo as it would be with a last_seen default evaluated once, at import
NodeInfo_at_import(registration, t) ==
    [models |-> registration.models,
     concordium_address |-> registration.concordium_address,
     last_seen |-> 0]

NodeInfo(registration, t) ==
    [models |-> registration.models,
     concordium_address |-> registration.concordium_address,
     last_seen |-> t]

\* register_node appending without first filtering the node_id out
without_node_unfiltered(list, node_id) == list

\* [n for n in self.model_to_nodes[model] if n.node_id != registration.node_id]
without_node(list, node_id) ==
    LET keep(n) == n # node_id IN SelectSeq(list, keep)

\* the loop "for model in registration.models" of register_node
RECURSIVE index_models(_, _, _)
index_models(model_to_nodes, models, node_id) ==
    IF models = <<>> THEN model_to_nodes
    ELSE LET model == Head(models)
             old == Get(model_to_nodes, model, <<>>)
             new == Append(without_node(old, node_id), node_id)
         IN index_models(Put(model_to_nodes, model, new), Tail(models), node_id)

register_node(self, registration, t) ==
    [self EXCEPT
        !.nodes = Put(self.nodes, registration.node_id, NodeInfo(registration, t)),
        !.model_to_nodes =
            index_models(self.model_to_nodes, registration.models, registration.node_id)]

\* get_node_for_model storing the cursor without advancing it
get_node_for_model_stuck(self, model) ==
    IF model \notin DOMAIN self.model_to_nodes \/ self.model_to_nodes[model] = <<>>
    THEN [self |-> self, ret |-> None]
    ELSE LET cursor == Get(self.round_robin_index, model, 0)
             nodes == self.model_to_nodes[model]
             index == cursor % Len(nodes)
         IN [self |-> [self EXCEPT !.round_robin_index =
                          Put(self.round_robin_index, model, index)],
             ret |-> nodes[index + 1]]

\* get_node_for_model storing index + 1 without the second "% len(nodes)"
get_node_for_model_unwrapped(self, model) ==
    IF model \notin DOMAIN self.model_to_nodes \/ self.model_to_nodes[model] = <<>>
    THEN [self |-> self, ret |-> None]
    ELSE LET cursor == Get(self.round_robin_index, model, 0)
             nodes == self.model_to_nodes[model]
             index == cursor % Len(nodes)
         IN [self |-> [self EXCEPT !.round_robin_index =
                          Put(self.round_robin_index, model, index + 1)],
             ret |-> nodes[index + 1]]

\* get_node_for_model: the Registry after the call, and the value returned
get_node_for_model(self, model) ==
    IF model \notin DOMAIN self.model_to_nodes \/ self.model_to_nodes[model] = <<>>
    THEN [self |-> self, ret |-> None]
    ELSE LET cursor == Get(self.round_robin_index, model, 0)
             nodes == self.model_to_nodes[model]
             index == cursor % Len(nodes)
         IN [self |-> [self EXCEPT !.round_robin_index =
                          Put(self.round_robin_index, model, (index + 1) % Len(nodes))],
             ret |-> nodes[index + 1]]

get_all_nodes(self) == DOMAIN self.nodes

\* update_node_heartbeat as it would be without "if node_id in self.nodes"
update_node_heartbeat_creating(self, node_id, t) ==
    [self EXCEPT !.nodes =
        Put(self.nodes, node_id,
            [Get(self.nodes, node_id,
                 [models |-> <<>>, concordium_address |-> None, last_seen |-> t])
             EXCEPT !.last_seen = t])]

update_node_heartbeat(self, node_id, t) ==
    IF node_id \in DOMAIN self.nodes
    THEN [self EXCEPT !.nodes[node_id].last_seen = t]
    ELSE self

stale_node_ids(self, timeout_seconds, t) ==
    {node_id \in DOMAIN self.nodes : self.nodes[node_id].last_seen < t - timeout_seconds}

prune_stale_nodes(self, timeout_seconds, t) ==
    LET stale == stale_node_ids(self, timeout_seconds, t)
        \* the stale nodes whose own models list names `model`
        dropped(model) == {n \in stale : model \in Range(self.nodes[n].models)}
        keep(model) == LET k(n) == n \notin dropped(model)
                       IN SelectSeq(self.model_to_nodes[model], k)
    IN [self EXCEPT
           !.nodes = [n \in DOMAIN self.nodes \ stale |-> self.nodes[n]],
           !.model_to_nodes = [m \in DOMAIN self.model_to_nodes |-> keep(m)]]

(***************************************************************************)
(* class JobQueue                                                          *)
(*                                                                         *)
(* jobs   : job_id -> status, model, chunks, done, error (prompt and       *)
(*          created_at are stored and never read by the server)            *)
(* pending: model -> list of job_id                                        *)
(***************************************************************************)
PENDING == "pending"

IN_PROGRESS == "in_progress"

COMPLETED == "completed"

FAILED == "failed"

JobQueue_init == [jobs |-> EmptyDict, pending |-> EmptyDict]

add_job(self, job) ==
    [jobs |-> Put(self.jobs, job.job_id,
                  [status |-> PENDING, model |-> job.model, chunks |-> <<>>,
                   done |-> FALSE, error |-> None]),
     pending |-> Put(self.pending, job.model,
                     Append(Get(self.pending, job.model, <<>>), job.job_id))]

\* get_next_job as it would be with pop() in place of pop(0)
RECURSIVE get_next_job_newest(_, _)
get_next_job_newest(self, models) ==
    IF models = <<>> THEN [self |-> self, ret |-> None]
    ELSE LET model == Head(models) IN
         IF model \in DOMAIN self.pending /\ self.pending[model] # <<>>
         THEN LET fifo == self.pending[model]
                  job_id == fifo[Len(fifo)]
              IN [self |-> [self EXCEPT !.pending[model] = SubSeq(fifo, 1, Len(fifo) - 1),
                                        !.jobs[job_id].status = IN_PROGRESS],
                  ret |-> job_id]
         ELSE get_next_job_newest(self, Tail(models))

\* get_next_job: the JobQueue after the call, and the job_id returned
RECURSIVE get_next_job(_, _)
get_next_job(self, models) ==
    IF models = <<>> THEN [self |-> self, ret |-> None]
    ELSE LET model == Head(models) IN
         IF model \in DOMAIN self.pending /\ self.pending[model] # <<>>
         THEN LET job_id == Head(self.pending[model])
              IN [self |-> [self EXCEPT !.pending[model] = Tail(@),
                                        !.jobs[job_id].status = IN_PROGRESS],
                  ret |-> job_id]
         ELSE get_next_job(self, Tail(models))

\* add_chunk as it would be with a missing "if job_id in self.jobs"
add_chunk_creating(self, job_id, chunk) ==
    [self EXCEPT !.jobs =
        Put(self.jobs, job_id,
            [Get(self.jobs, job_id,
                 [status |-> PENDING, model |-> None, chunks |-> <<>>, done |-> FALSE,
                  error |-> None])
             EXCEPT !.chunks = Append(@, chunk)])]

add_chunk(self, job_id, chunk) ==
    IF job_id \in DOMAIN self.jobs
    THEN [self EXCEPT !.jobs[job_id].chunks = Append(@, chunk)]
    ELSE self

\* `if error:` is Python truthiness: None and the empty string are both false
truthy(error) == error # None /\ error # ""

mark_done(self, job_id, error) ==
    IF job_id \in DOMAIN self.jobs
    THEN IF truthy(error)
         THEN [self EXCEPT !.jobs[job_id].status = FAILED,
                           !.jobs[job_id].error = error,
                           !.jobs[job_id].done = TRUE]
         ELSE [self EXCEPT !.jobs[job_id].status = COMPLETED,
                           !.jobs[job_id].done = TRUE]
    ELSE self

get_chunks(self, job_id) ==
    IF job_id \in DOMAIN self.jobs THEN self.jobs[job_id].chunks ELSE <<>>

is_done(self, job_id) ==
    IF job_id \in DOMAIN self.jobs THEN self.jobs[job_id].done ELSE FALSE

(***************************************************************************)
(* The ledger (models.py, table `job`) and the done-ingress scan.          *)
(*                                                                         *)
(* A chunk is one line of text.  A line that is a JSON object is a record  *)
(* of its keys; a line json.loads rejects is [raw |-> ...].                *)
(***************************************************************************)
\* None in an Optional[int] column: a value no count takes
NoCount == -1

DBJob(model) ==
    [status |-> "pending", model |-> model, node_id |-> None, node_address |-> None,
     prompt_tokens |-> NoCount, completion_tokens |-> NoCount, total_tokens |-> NoCount,
     completed_at |-> None]

json_loads_fails(chunk) == "raw" \in DOMAIN chunk

\* the body of "for chunk in chunks" of mark_job_done, exceptions swallowed
scan_chunk(db_job, chunk, reg) ==
    IF json_loads_fails(chunk) THEN db_job
    ELSE LET counted ==
                 IF "token_counts" \in DOMAIN chunk
                 THEN [db_job EXCEPT
                          !.prompt_tokens = Get(chunk.token_counts, "prompt_tokens", NoCount),
                          !.completion_tokens =
                              Get(chunk.token_counts, "completion_tokens", NoCount),
                          !.total_tokens = Get(chunk.token_counts, "total_tokens", NoCount)]
                 ELSE db_job
         IN IF Get(chunk, "metadata", FALSE) = TRUE /\ "node_id" \in DOMAIN chunk
            THEN [counted EXCEPT
                     !.node_id = chunk.node_id,
                     !.node_address =
                         IF chunk.node_id \in DOMAIN reg.nodes
                         THEN reg.nodes[chunk.node_id].concordium_address
                         ELSE @]
            ELSE counted

RECURSIVE scan_chunks(_, _, _)
scan_chunks(db_job, chunks, reg) ==
    IF chunks = <<>> THEN db_job
    ELSE scan_chunks(scan_chunk(db_job, Head(chunks), reg), Tail(chunks), reg)

\* `if db_job.total_tokens`: None and 0 are both false
truthy_count(n) == n # NoCount /\ n # 0

\* pricing.price_per_token of config.json, in units of its default 0.0001 CCD
price_per_token == 1

\* the body GET /jobs/{job_id} returns for a row (lines 502-527).  A JSON null
\* in place of an object is the record without fields.
get_job(db_job) ==
    [job_status |-> db_job.status,
     model |-> db_job.model,
     node_id |-> db_job.node_id,
     node_address |-> db_job.node_address,
     token_counts |->
         IF truthy_count(db_job.total_tokens)
         THEN [prompt_tokens |-> db_job.prompt_tokens,
               completion_tokens |-> db_job.completion_tokens,
               total_tokens |-> db_job.total_tokens]
         ELSE EmptyDict,
     payment |->
         IF truthy_count(db_job.total_tokens) /\ truthy(db_job.node_address)
         THEN [amount_ccd |-> db_job.total_tokens * price_per_token,
               recipient_address |-> db_job.node_address,
               recipient_node |-> db_job.node_id]
         ELSE EmptyDict]

(***************************************************************************)
(* sse_connections: a dict in insertion order, a sequence of               *)
(* [node_id, sid] where sid names the asyncio.Queue of stream request sid. *)
(***************************************************************************)
connected(sse) == {sse[i].node_id : i \in DOMAIN sse}

\* sse_connections[node_id] = queue: a present key keeps its place
sse_set(sse, node_id, sid) ==
    IF node_id \in connected(sse)
    THEN [i \in DOMAIN sse |->
             IF sse[i].node_id = node_id THEN [node_id |-> node_id, sid |-> sid] ELSE sse[i]]
    ELSE Append(sse, [node_id |-> node_id, sid |-> sid])

\* if node_id in sse_connections: del sse_connections[node_id]
sse_del(sse, node_id) ==
    LET keep(e) == e.node_id # node_id IN SelectSeq(sse, keep)

\* the asyncio.Queue of the node_id's entry
sse_get(sse, node_id) ==
    sse[CHOOSE i \in DOMAIN sse : sse[i].node_id = node_id].sid

\* what inference puts on a queue: the Job (its prompt is not modelled)
JobItem(job_id, model) == [job_id |-> job_id, model |-> model]

\* what payment_confirmed puts on a queue (lines 563-568)
PaymentItem(confirmation) ==
    [type |-> "payment_received", job_id |-> confirmation.job_id,
     amount |-> confirmation.amount,
     transaction_hash |-> confirmation.transaction_hash]

\* the event event_generator yields for an item of its queue (lines 314-325)
event_of(item) ==
    IF Get(item, "type", None) = "payment_received"
    THEN [event |-> "payment_received", data |-> item]
    ELSE [event |-> "job", data |-> item]

\* can_serve as it would be if inference pushed to any connected node
can_serve_any(reg, node_id, model) == TRUE

\* "node_id in registry.nodes and request.model in node_info.models"
can_serve(reg, node_id, model) ==
    node_id \in DOMAIN reg.nodes /\ model \in Range(reg.nodes[node_id].models)

\* the loop "for node_id, queue in sse_connections.items()" of inference: the
\* position of the first entry it pushes to, 0 when it pushes to none
push_target(sse, reg, model) ==
    LET fit == {i \in DOMAIN sse : can_serve(reg, sse[i].node_id, model)}
    IN IF fit = {} THEN 0 ELSE CHOOSE i \in fit : \A k \in fit : i <= k

(***************************************************************************)
(* stream_chunks, the generator behind the /inference response.  It is     *)
(* suspended at each yield and at asyncio.sleep; `out` is what it has      *)
(* yielded so far.                                                         *)
(***************************************************************************)
MAX_JOB_TIMEOUT == 2

CHECKS_PER_SECOND == 1

TimeoutChunk == [error |-> "Job timeout", done |-> TRUE]

Relay_init ==
    [pc |-> "start", last_chunk_index |-> 0, timeout_count |-> 0, i |-> 0, hi |-> 0,
     out |-> <<>>]

\* lines 484-486, from the range() of the last for loop to its first yield
relay_final(r, chunks) ==
    IF r.last_chunk_index < Len(chunks)
    THEN [r EXCEPT !.pc = "final_yield", !.i = r.last_chunk_index, !.hi = Len(chunks),
                   !.out = Append(@, chunks[r.last_chunk_index + 1])]
    ELSE [r EXCEPT !.pc = "closed"]

\* from the test of `while not job_queue.is_done(job_id)` to the next suspension
relay_while(r, job) ==
    IF ~job.done
    THEN IF r.last_chunk_index < Len(job.chunks)
         THEN [r EXCEPT !.pc = "loop_yield", !.i = r.last_chunk_index,
                        !.hi = Len(job.chunks),
                        !.out = Append(@, job.chunks[r.last_chunk_index + 1])]
         ELSE [r EXCEPT !.pc = "sleep"]
    ELSE relay_final(r, job.chunks)

\* relay_after_yield as it would be without "last_chunk_index = i + 1"
relay_after_yield_unadvanced(r, job) ==
    IF r.i + 1 < r.hi
    THEN [r EXCEPT !.i = r.i + 1, !.out = Append(@, job.chunks[r.i + 2])]
    ELSE [r EXCEPT !.pc = "sleep"]

\* resumed after a yield of the first for loop (lines 469-473)
relay_after_yield(r, job) ==
    LET r1 == [r EXCEPT !.last_chunk_index = r.i + 1] IN
    IF r.i + 1 < r.hi
    THEN [r1 EXCEPT !.i = r.i + 1, !.out = Append(@, job.chunks[r.i + 2])]
    ELSE [r1 EXCEPT !.pc = "sleep"]

\* relay_after_sleep as it would be without "timeout_count += 1"
relay_after_sleep_uncounted(r, job) ==
    IF r.timeout_count > MAX_JOB_TIMEOUT * CHECKS_PER_SECOND
    THEN [r EXCEPT !.pc = "timeout_yield", !.out = Append(@, TimeoutChunk)]
    ELSE relay_while(r, job)

\* resumed after asyncio.sleep (lines 475-482)
relay_after_sleep(r, job) ==
    LET r1 == [r EXCEPT !.timeout_count = @ + 1] IN
    IF r1.timeout_count > MAX_JOB_TIMEOUT * CHECKS_PER_SECOND
    THEN [r1 EXCEPT !.pc = "timeout_yield", !.out = Append(@, TimeoutChunk)]
    ELSE relay_while(r1, job)

\* resumed after a yield of the last for loop (lines 485-486)
relay_after_final_yield(r, job) ==
    IF r.i + 1 < r.hi
    THEN [r EXCEPT !.i = r.i + 1, !.out = Append(@, job.chunks[r.i + 2])]
    ELSE [r EXCEPT !.pc = "closed"]

(***************************************************************************)
(* health_check_task (lines 219-244), started by lifespan.  It is          *)
(* suspended in asyncio.sleep(interval) or in the GET of a health probe.   *)
(*                                                                         *)
(* pc       : "sleep" or "probe"                                           *)
(* todo     : what is left of the list get_all_nodes() returned, the node  *)
(*            being probed first                                           *)
(* wake_at  : when the sleep is over                                       *)
(* deadline : when the probe's timeout expires                             *)
(*                                                                         *)
(* health_check_timeout is 5 s of a 30 s interval by default; a probe      *)
(* takes at most one tick of the model's clock.                            *)
(***************************************************************************)
HealthCheckTimeout == 1

Health_init ==
    [pc |-> "sleep", todo |-> <<>>, wake_at |-> HealthCheckInterval, deadline |-> 0]

\* the scan as it would be without the test "node.node_id in sse_connections"
RECURSIVE health_scan_probing(_, _, _, _)
health_scan_probing(reg, sse, todo, t) ==
    IF todo = <<>>
    THEN [registry |-> prune_stale_nodes(reg, HealthCheckInterval * 2, t),
          pc |-> "sleep", todo |-> <<>>]
    ELSE [registry |-> reg, pc |-> "probe", todo |-> todo]

\* "for node in ..." from the node at the head of todo up to the next await:
\* the GET of a probe, or the sleep that follows prune_stale_nodes
RECURSIVE health_scan(_, _, _, _)
health_scan(reg, sse, todo, t) ==
    IF todo = <<>>
    THEN [registry |-> prune_stale_nodes(reg, HealthCheckInterval * 2, t),
          pc |-> "sleep", todo |-> <<>>]
    ELSE IF Head(todo) \in connected(sse)
    THEN health_scan(update_node_heartbeat(reg, Head(todo), t), sse, Tail(todo), t)
    ELSE [registry |-> reg, pc |-> "probe", todo |-> todo]

\* the task's state at the await health_scan stopped at
health_suspended(scan, t) ==
    [pc |-> scan.pc, todo |-> scan.todo,
     wake_at |-> IF scan.pc = "sleep" THEN t + HealthCheckInterval ELSE 0,
     deadline |-> IF scan.pc = "probe" THEN t + HealthCheckTimeout ELSE 0]

(***************************************************************************)
(* The state after construction (lines 250-252, init_db).                  *)
(***************************************************************************)
Init ==
    /\ registry = Registry_init
    /\ job_queue = JobQueue_init
    /\ sse_connections = <<>>
    /\ streams = EmptyDict
    /\ db = EmptyDict
    /\ payments = EmptyDict
    /\ relays = EmptyDict
    /\ health = Health_init
    /\ now = 0
    /\ pushed = EmptyDict
    /\ last_op = [op |-> "init"]

(***************************************************************************)
(* The clock: datetime.now() read by a later step is not earlier.          *)
(***************************************************************************)
Advance(limit) ==
    /\ now < limit
    /\ now' = now + 1
    /\ UNCHANGED <<registry, outside_registry>>

(***************************************************************************)
(* The Registry's methods as operations.  POST /register (lines 277-284)   *)
(* is register_node and nothing else.                                      *)
(***************************************************************************)
Registrations ==
    [node_id : NodeIds, models : ModelLists, concordium_address : Addresses]

RegisterNode(registration) ==
    /\ registry' = register_node(registry, registration, now)
    /\ UNCHANGED <<now, outside_registry>>

GetNodeForModel(model) ==
    /\ registry' = get_node_for_model(registry, model).self
    /\ UNCHANGED <<now, outside_registry>>

UpdateNodeHeartbeat(node_id) ==
    /\ registry' = update_node_heartbeat(registry, node_id, now)
    /\ UNCHANGED <<now, outside_registry>>

PruneStaleNodes ==
    /\ registry' = prune_stale_nodes(registry, HealthCheckInterval * 2, now)
    /\ UNCHANGED <<now, outside_registry>>

(***************************************************************************)
(* The request handlers and the generators they start.                     *)
(***************************************************************************)
MaxStreams == 2

MaxJobs == 2

MaxChunks == 3

JobIds == 0..MaxTime

Token(t) == [token |-> t, done |-> FALSE]

Chunks == {Token("x"), Token("y")}

Errors == {None, "", "boom"}

PollLists == {<<"a">>, <<"b">>, <<"a", "b">>, <<"b", "a">>}

\* GET /stream, up to the return of the EventSourceResponse (lines 287-298).
\* sid names the new asyncio.Queue: the least name no open stream bears.
StreamOpen(node_id) ==
    LET sid == CHOOSE k \in 1..MaxStreams :
                   k \notin DOMAIN streams /\ \A j \in 1..(k - 1) : j \in DOMAIN streams
    IN
    /\ Cardinality(DOMAIN streams) < MaxStreams
    /\ registry' = update_node_heartbeat(registry, node_id, now)
    /\ streams' = Put(streams, sid, [node_id |-> node_id, queue |-> <<>>, out |-> <<>>])
    /\ sse_connections' = sse_set(sse_connections, node_id, sid)
    /\ UNCHANGED <<job_queue, db, payments, relays, health, now, pushed>>

\* StreamEvent as it would be with an asyncio.LifoQueue
StreamEventNewest(sid) ==
    LET queue == streams[sid].queue IN
    /\ queue # <<>>
    /\ streams' = [streams EXCEPT ![sid].queue = SubSeq(queue, 1, Len(queue) - 1),
                                  ![sid].out = Append(@, event_of(queue[Len(queue)]))]
    /\ UNCHANGED <<registry, job_queue, sse_connections, db, payments, relays, health, now,
                   pushed>>

\* event_generator: queue.get() returned an item, sent as an event (lines 312-325)
StreamEvent(sid) ==
    /\ streams[sid].queue # <<>>
    /\ streams' = [streams EXCEPT ![sid].queue = Tail(@),
                                  ![sid].out = Append(@, event_of(Head(streams[sid].queue)))]
    /\ UNCHANGED <<registry, job_queue, sse_connections, db, payments, relays, health, now, pushed>>

\* event_generator: queue.get() timed out after 1 s (lines 327-333)
StreamHeartbeat(sid) ==
    /\ streams[sid].queue = <<>>
    /\ registry' = update_node_heartbeat(registry, streams[sid].node_id, now)
    /\ UNCHANGED <<job_queue, sse_connections, streams, db, payments, relays, health, now, pushed>>

\* StreamClose as it would be without the finally block
StreamCloseKeepingChannel(sid) ==
    /\ streams' = [k \in DOMAIN streams \ {sid} |-> streams[k]]
    /\ UNCHANGED <<registry, job_queue, sse_connections, db, payments, relays, health, now,
                   pushed>>

\* StreamClose as it would be if the finally block also dropped the node
StreamCloseUnregistering(sid) ==
    /\ streams' = [k \in DOMAIN streams \ {sid} |-> streams[k]]
    /\ sse_connections' = sse_del(sse_connections, streams[sid].node_id)
    /\ registry' = [registry EXCEPT !.nodes =
                       [n \in DOMAIN @ \ {streams[sid].node_id} |-> @[n]]]
    /\ UNCHANGED <<job_queue, db, payments, relays, health, now, pushed>>

\* event_generator: the client went away and the finally block runs (lines
\* 335-338); the generator and its queue are gone
StreamClose(sid) ==
    /\ streams' = [k \in DOMAIN streams \ {sid} |-> streams[k]]
    /\ sse_connections' = sse_del(sse_connections, streams[sid].node_id)
    /\ UNCHANGED <<registry, job_queue, db, payments, relays, health, now, pushed>>

\* GET /poll (lines 343-354)
Poll(node_id, models) ==
    /\ registry' = update_node_heartbeat(registry, node_id, now)
    /\ job_queue' = get_next_job(job_queue, models).self
    /\ UNCHANGED <<sse_connections, streams, db, payments, relays, health, now, pushed>>

\* POST /jobs/{job_id}/chunk (lines 385-388)
ReceiveChunk(job_id, chunk) ==
    /\ Len(get_chunks(job_queue, job_id)) < MaxChunks
    /\ job_queue' = add_chunk(job_queue, job_id, chunk)
    /\ UNCHANGED <<registry, sse_connections, streams, db, payments, relays, health, now, pushed>>

\* mark_job_done as it would be if the job's entry went away with its response
MarkJobDoneWhileStreaming(job_id, error) ==
    /\ IF job_id \in DOMAIN relays /\ relays[job_id].pc = "closed"
       THEN UNCHANGED <<job_queue, db>>
       ELSE /\ job_queue' = mark_done(job_queue, job_id, error)
            /\ db' = [db EXCEPT ![job_id].status =
                         IF truthy(error) THEN "failed" ELSE "completed"]
    /\ UNCHANGED <<registry, sse_connections, streams, payments, relays, health, now,
                   pushed>>

\* POST /jobs/{job_id}/done (lines 391-420)
MarkJobDone(job_id, error) ==
    /\ job_queue' = mark_done(job_queue, job_id, error)
    /\ db' = IF job_id \in DOMAIN db
             THEN [db EXCEPT ![job_id] =
                      scan_chunks([@ EXCEPT !.status = IF truthy(error) THEN "failed"
                                                       ELSE "completed",
                                            !.completed_at = now],
                                  get_chunks(job_queue', job_id), registry)]
             ELSE db
    /\ UNCHANGED <<registry, sse_connections, streams, payments, relays, health, now,
                   pushed>>

\* the bodies of POST /payment-confirmed
Confirmations == [job_id : JobIds, transaction_hash : {"tx1"}, amount : {1}]

\* POST /payment-confirmed (lines 531-571).  Payment of models.py declares
\* neither transaction_hash nor paid nor recipient_address: whether the ORM
\* raises on them (the request then ends with 500 and nothing is committed)
\* or ignores them is not decided by this repository; `raises` is either.
PaymentConfirmed(confirmation, raises) ==
    LET job_id == confirmation.job_id
        node_id == db[job_id].node_id
    IN
    IF job_id \notin DOMAIN db \/ raises
    THEN UNCHANGED <<registry, job_queue, sse_connections, streams, db, payments, relays,
                     health, now, pushed>>
    ELSE /\ payments' = IF job_id \in DOMAIN payments THEN payments
                        ELSE Put(payments, job_id,
                                 [amount_ccd |-> confirmation.amount,
                                  payment_tx |-> None, paid_at |-> None])
         /\ streams' = IF node_id # None /\ node_id # "" /\ node_id \in connected(sse_connections)
                       THEN [streams EXCEPT ![sse_get(sse_connections, node_id)].queue =
                                Append(@, PaymentItem(confirmation))]
                       ELSE streams
         /\ UNCHANGED <<registry, job_queue, sse_connections, db, relays, health, now, pushed>>

\* GET /jobs/{job_id} (lines 495-527) reads the ledger and writes nothing
GetJob(job_id) ==
    UNCHANGED <<registry, job_queue, sse_connections, streams, db, payments, relays, health,
                now, pushed>>

\* inference_status as it would be if job_id were no primary key of the ledger
inference_status_unchecked(model) ==
    IF get_node_for_model(registry, model).ret = None THEN 404 ELSE 200

\* The HTTP status of POST /inference in the current state: 404 when
\* get_node_for_model returns None (lines 426-431), 500 when session.commit()
\* raises IntegrityError because the row job-<now> exists (lines 436-443).
inference_status(model) ==
    IF get_node_for_model(registry, model).ret = None THEN 404
    ELSE IF now \in DOMAIN db THEN 500
    ELSE 200

\* inference as it would be without its ledger insert
InferenceUnledgered(model) ==
    LET r == get_node_for_model(registry, model)
        job_id == now
        target == push_target(sse_connections, registry, model)
        queued == add_job(job_queue, [job_id |-> job_id, model |-> model])
    IN
    IF r.ret = None
    THEN UNCHANGED <<registry, job_queue, sse_connections, streams, db, payments, relays, health,
                     now, pushed>>
    ELSE /\ Cardinality(DOMAIN job_queue.jobs) < MaxJobs
         /\ registry' = r.self
         /\ relays' = Put(relays, job_id, Relay_init)
         /\ IF target = 0
            THEN /\ job_queue' = queued
                 /\ UNCHANGED <<streams, pushed>>
            ELSE /\ job_queue' = [queued EXCEPT !.jobs[job_id].status = IN_PROGRESS]
                 /\ streams' = [streams EXCEPT ![sse_connections[target].sid].queue =
                                   Append(@, JobItem(job_id, model))]
                 /\ pushed' = Put(pushed, job_id,
                        [node_id |-> sse_connections[target].node_id,
                         model |-> model,
                         eligible |-> {n \in connected(sse_connections) :
                                          can_serve(registry, n, model)}])
         /\ UNCHANGED <<sse_connections, db, payments, health, now>>

\* inference as it would be without the `break` of its push loop: the job is
\* put on the queue of every connected node that can serve the model
InferenceBroadcast(model) ==
    LET r == get_node_for_model(registry, model)
        job_id == now
        fit == {i \in DOMAIN sse_connections :
                   can_serve(registry, sse_connections[i].node_id, model)}
        queued == add_job(job_queue, [job_id |-> job_id, model |-> model])
    IN
    IF inference_status(model) = 404
    THEN UNCHANGED <<registry, job_queue, sse_connections, streams, db, payments, relays, health,
                     now, pushed>>
    ELSE IF inference_status(model) = 500
    THEN /\ registry' = r.self
         /\ UNCHANGED <<job_queue, sse_connections, streams, db, payments, relays, health, now, pushed>>
    ELSE /\ Cardinality(DOMAIN db) < MaxJobs
         /\ registry' = r.self
         /\ db' = Put(db, job_id, DBJob(model))
         /\ relays' = Put(relays, job_id, Relay_init)
         /\ IF fit = {}
            THEN /\ job_queue' = queued
                 /\ UNCHANGED <<streams, pushed>>
            ELSE /\ job_queue' = [queued EXCEPT !.jobs[job_id].status = IN_PROGRESS]
                 /\ streams' = [sid \in DOMAIN streams |->
                                   IF \E i \in fit : sse_connections[i].sid = sid
                                   THEN [streams[sid] EXCEPT
                                            !.queue = Append(@, JobItem(job_id, model))]
                                   ELSE streams[sid]]
                 /\ pushed' = Put(pushed, job_id,
                        [node_id |-> sse_connections[CHOOSE i \in fit : TRUE].node_id,
                         model |-> model,
                         eligible |-> {n \in connected(sse_connections) :
                                          can_serve(registry, n, model)}])
         /\ UNCHANGED <<sse_connections, payments, health, now>>

\* POST /inference, up to the return of the StreamingResponse (lines 423-460,
\* 488-492).  job_id is f"job-{datetime.now().timestamp()}": the clock's value.
Inference(model) ==
    LET r == get_node_for_model(registry, model)
        job_id == now
        target == push_target(sse_connections, registry, model)
        queued == add_job(job_queue, [job_id |-> job_id, model |-> model])
    IN
    IF inference_status(model) = 404
    THEN UNCHANGED <<registry, job_queue, sse_connections, streams, db, payments, relays, health,
                     now, pushed>>
    ELSE IF inference_status(model) = 500
    THEN /\ registry' = r.self
         /\ UNCHANGED <<job_queue, sse_connections, streams, db, payments, relays, health, now, pushed>>
    ELSE /\ Cardinality(DOMAIN db) < MaxJobs
         /\ registry' = r.self
         /\ db' = Put(db, job_id, DBJob(model))
         /\ relays' = Put(relays, job_id, Relay_init)
         /\ IF target = 0
            THEN /\ job_queue' = queued
                 /\ UNCHANGED <<streams, pushed>>
            ELSE /\ job_queue' = [queued EXCEPT !.jobs[job_id].status = IN_PROGRESS]
                 /\ streams' = [streams EXCEPT ![sse_connections[target].sid].queue =
                                   Append(@, JobItem(job_id, model))]
                 /\ pushed' = Put(pushed, job_id,
                        [node_id |-> sse_connections[target].node_id,
                         model |-> model,
                         eligible |-> {n \in connected(sse_connections) :
                                          can_serve(registry, n, model)}])
         /\ UNCHANGED <<sse_connections, payments, health, now>>

relay_unchanged ==
    <<registry, job_queue, sse_connections, streams, db, payments, health, now, pushed>>

\* stream_chunks is started: up to its first yield or sleep
RelayStart(job_id) ==
    /\ relays[job_id].pc = "start"
    /\ relays' = [relays EXCEPT ![job_id] = relay_while(@, job_queue.jobs[job_id])]
    /\ UNCHANGED relay_unchanged

RelayAfterYield(job_id) ==
    /\ relays[job_id].pc = "loop_yield"
    /\ relays' = [relays EXCEPT ![job_id] = relay_after_yield(@, job_queue.jobs[job_id])]
    /\ UNCHANGED relay_unchanged

RelayAfterSleep(job_id) ==
    /\ relays[job_id].pc = "sleep"
    /\ relays' = [relays EXCEPT ![job_id] = relay_after_sleep(@, job_queue.jobs[job_id])]
    /\ UNCHANGED relay_unchanged

RelayAfterTimeout(job_id) ==
    /\ relays[job_id].pc = "timeout_yield"
    /\ relays' = [relays EXCEPT ![job_id] = relay_final(@, get_chunks(job_queue, job_id))]
    /\ UNCHANGED relay_unchanged

RelayAfterFinalYield(job_id) ==
    /\ relays[job_id].pc = "final_yield"
    /\ relays' = [relays EXCEPT ![job_id] =
                     relay_after_final_yield(@, job_queue.jobs[job_id])]
    /\ UNCHANGED relay_unchanged

\* the orders in which get_all_nodes() may list the nodes: the model keeps
\* nodes as a function, without the insertion order of the dict
Orders(S) ==
    {o \in [1..Cardinality(S) -> S] : \A n \in S : \E i \in DOMAIN o : o[i] = n}

health_unchanged == <<job_queue, sse_connections, streams, db, payments, relays, now, pushed>>

\* asyncio.sleep(interval) is over: the scan starts (lines 225-227)
HealthWake(order) ==
    /\ health.pc = "sleep"
    /\ now >= health.wake_at
    /\ LET scan == health_scan(registry, sse_connections, order, now)
       IN /\ registry' = scan.registry
          /\ health' = health_suspended(scan, now)
    /\ UNCHANGED health_unchanged

\* the GET of the probe returned 200 (ok), or anything else or raised
\* (lines 235-241); the scan goes on with the next node
HealthProbeDone(ok) ==
    /\ health.pc = "probe"
    /\ LET probed == IF ok
                     THEN update_node_heartbeat(registry, Head(health.todo), now)
                     ELSE registry
           scan == health_scan(probed, sse_connections, Tail(health.todo), now)
       IN /\ registry' = scan.registry
          /\ health' = health_suspended(scan, now)
    /\ UNCHANGED health_unchanged

\* no response to the GET: httpx raised (timeout, connection error)
NoResponse == 0

\* what the GET of a probe ends with: a status code, or no response
ProbeOutcomes == {200, 204, 503, NoResponse}

\* "response.status_code == 200" inside the try block (lines 236-238)
probe_ok(outcome) == outcome = 200

\* the probe of the node at the head of todo ended with `outcome`
HealthProbe(outcome) == HealthProbeDone(probe_ok(outcome))

\* the event loop resumes the task when its sleep or its probe's timeout is
\* over: the clock does not run past either
HealthOnTime ==
    IF health.pc = "sleep" THEN now < health.wake_at ELSE now < health.deadline

(***************************************************************************)
(* History.  last_op is the last operation a specification chooses to      *)
(* record, with what it returned; for get_node_for_model it holds the run  *)
(* of values returned by consecutive calls for one model (heartbeats and   *)
(* clock ticks do not end a run; register_node and prune_stale_nodes do).  *)
(***************************************************************************)
Quiet == UNCHANGED last_op

MaxRun == 2 * Cardinality(NodeIds)

LastN(s, n) == IF Len(s) <= n THEN s ELSE SubSeq(s, Len(s) - n + 1, Len(s))

pick_run(model, ret) ==
    LET before == IF last_op.op = "get_node_for_model" /\ last_op.model = model
                  THEN last_op.rets ELSE <<>>
    IN [op |-> "get_node_for_model", model |-> model,
        rets |-> IF ret = None THEN <<>> ELSE LastN(Append(before, ret), MaxRun)]

registered(registration) ==
    [op |-> "register_node", node_id |-> registration.node_id,
     same |-> /\ registration.node_id \in DOMAIN registry.nodes
              /\ Range(registry.nodes[registration.node_id].models)
                    = Range(registration.models)]

pruned ==
    [op |-> "prune_stale_nodes",
     stale |-> stale_node_ids(registry, HealthCheckInterval * 2, now)]

\* what a chunk or done post found: a job_id of the job table or the ledger?
known_job(job_id) == job_id \in DOMAIN job_queue.jobs \/ job_id \in DOMAIN db

\* receive_chunk always returns {"status": "received"}
received(job_id) ==
    [op |-> "receive_chunk", job_id |-> job_id, known |-> known_job(job_id),
     was_done |-> is_done(job_queue, job_id), ret |-> "received"]

\* mark_job_done always returns {"status": "done"}
done_posted(job_id, error) ==
    [op |-> "mark_job_done", job_id |-> job_id, error |-> error,
     known |-> known_job(job_id), was_done |-> is_done(job_queue, job_id),
     ret |-> "done"]

\* what /inference answered, and the job_id it made from the clock
inferred(model) ==
    [op |-> "inference", model |-> model, status |-> inference_status(model),
     job_id |-> now]

\* what /poll answered: 200 and the job_id returned, or 204
polled(node_id, models) ==
    LET taken == get_next_job(job_queue, models)
    IN [op |-> "poll", node_id |-> node_id, models |-> models,
        status |-> IF taken.self = job_queue THEN 204 ELSE 200, ret |-> taken.ret]

\* what GET /jobs/{job_id} answered: 404, or 200 and the body
job_read(job_id) ==
    IF job_id \in DOMAIN db
    THEN [op |-> "get_job", job_id |-> job_id, status |-> 200, body |-> get_job(db[job_id])]
    ELSE [op |-> "get_job", job_id |-> job_id, status |-> 404]

(***************************************************************************)
(* The whole operator: every handler and generator, histories off.         *)
(***************************************************************************)
Next ==
    \/ Advance(MaxTime) /\ Quiet
    \/ \E registration \in Registrations : RegisterNode(registration) /\ Quiet
    \/ \E node_id \in NodeIds : StreamOpen(node_id) /\ Quiet
    \/ \E sid \in DOMAIN streams : StreamEvent(sid) /\ Quiet
    \/ \E sid \in DOMAIN streams : StreamHeartbeat(sid) /\ Quiet
    \/ \E sid \in DOMAIN streams : StreamClose(sid) /\ Quiet
    \/ \E node_id \in NodeIds : \E models \in PollLists : Poll(node_id, models) /\ Quiet
    \/ \E job_id \in JobIds : \E chunk \in Chunks : ReceiveChunk(job_id, chunk) /\ Quiet
    \/ \E job_id \in JobIds : \E error \in Errors : MarkJobDone(job_id, error) /\ Quiet
    \/ \E model \in Models : Inference(model) /\ Quiet
    \/ \E confirmation \in Confirmations : \E raises \in BOOLEAN :
           PaymentConfirmed(confirmation, raises) /\ Quiet
    \/ \E job_id \in JobIds : GetJob(job_id) /\ Quiet
    \/ \E job_id \in DOMAIN relays : RelayStart(job_id) /\ Quiet
    \/ \E job_id \in DOMAIN relays : RelayAfterYield(job_id) /\ Quiet
    \/ \E job_id \in DOMAIN relays : RelayAfterSleep(job_id) /\ Quiet
    \/ \E job_id \in DOMAIN relays : RelayAfterTimeout(job_id) /\ Quiet
    \/ \E job_id \in DOMAIN relays : RelayAfterFinalYield(job_id) /\ Quiet
    \/ \E order \in Orders(DOMAIN registry.nodes) : HealthWake(order) /\ Quiet
    \/ \E ok \in BOOLEAN : HealthProbeDone(ok) /\ Quiet

Spec == Init /\ [][Next]_vars

(***************************************************************************)
(* SpecRegistry: the Registry driven through its methods.                  *)
(***************************************************************************)
NextRegistry ==
    \/ Advance(MaxTime) /\ Quiet
    \/ \E registration \in Registrations :
           RegisterNode(registration) /\ last_op' = registered(registration)
    \/ \E model \in Models :
           GetNodeForModel(model)
               /\ last_op' = pick_run(model, get_node_for_model(registry, model).ret)
    \/ \E node_id \in NodeIds : UpdateNodeHeartbeat(node_id) /\ Quiet
    \/ PruneStaleNodes /\ last_op' = pruned

SpecRegistry == Init /\ [][NextRegistry]_vars

(***************************************************************************)
(* SpecQueue: one worker that registers, changes its models and polls;     *)
(* requesters; done posts.  No worker opens /stream.                       *)
(***************************************************************************)
MaxJobTime == 1

QueueRegistrations ==
    {[node_id |-> "W1", models |-> <<"a">>, concordium_address |-> "addr1"],
     [node_id |-> "W1", models |-> <<"b">>, concordium_address |-> "addr1"]}

\* the job_ids of posts: every one /inference can have issued, and one more
PostedJobIds == 0..(MaxJobTime + 1)

NextQueue ==
    \/ Advance(MaxJobTime) /\ Quiet
    \/ \E registration \in QueueRegistrations : RegisterNode(registration) /\ Quiet
    \/ \E node_id \in NodeIds : \E models \in PollLists : Poll(node_id, models) /\ Quiet
    \/ \E job_id \in PostedJobIds : \E error \in Errors : MarkJobDone(job_id, error) /\ Quiet
    \/ \E model \in Models : Inference(model) /\ Quiet

SpecQueue == Init /\ [][NextQueue]_vars

(***************************************************************************)
(* SpecPush: two workers serving one model that register and open and      *)
(* close /stream; requesters.                                              *)
(***************************************************************************)
PushRegistrations ==
    {[node_id |-> "W1", models |-> <<"a">>, concordium_address |-> "addr1"],
     [node_id |-> "W2", models |-> <<"a">>, concordium_address |-> "addr1"]}

NextPush ==
    \/ Advance(MaxJobTime) /\ Quiet
    \/ \E registration \in PushRegistrations : RegisterNode(registration) /\ Quiet
    \/ \E node_id \in NodeIds : StreamOpen(node_id) /\ Quiet
    \/ \E sid \in DOMAIN streams : StreamEvent(sid) /\ Quiet
    \/ \E sid \in DOMAIN streams : StreamHeartbeat(sid) /\ Quiet
    \/ \E sid \in DOMAIN streams : StreamClose(sid) /\ Quiet
    \/ \E model \in Models : Inference(model) /\ Quiet

SpecPush == Init /\ [][NextPush]_vars

(***************************************************************************)
(* SpecRelay: one job, its chunk and done posts and its stream_chunks      *)
(* generator.  The clock stands still, so a second /inference is refused.  *)
(* The worker follows execute_job of src/node/node.py: it posts the chunks *)
(* of a job before it posts done.  Every step records in last_op which     *)
(* request or generator ran.                                               *)
(***************************************************************************)
RelayRegistrations ==
    {[node_id |-> "W1", models |-> <<"a">>, concordium_address |-> "addr1"]}

streamed(job_id) == [op |-> "stream_chunks", job_id |-> job_id]

\* any step of the stream_chunks generator of job_id
RelayStep(job_id) ==
    /\ \/ RelayStart(job_id)
       \/ RelayAfterYield(job_id)
       \/ RelayAfterSleep(job_id)
       \/ RelayAfterTimeout(job_id)
       \/ RelayAfterFinalYield(job_id)
    /\ last_op' = streamed(job_id)

NextRelay ==
    \/ \E registration \in RelayRegistrations :
           RegisterNode(registration) /\ last_op' = [op |-> "register_node"]
    \/ \E model \in Models :
           Inference(model) /\ last_op' = [op |-> "inference", model |-> model]
    \/ \E job_id \in DOMAIN relays : \E chunk \in Chunks :
           /\ ~is_done(job_queue, job_id)
           /\ ReceiveChunk(job_id, chunk)
           /\ last_op' = received(job_id)
    \/ \E job_id \in DOMAIN relays : \E error \in Errors :
           MarkJobDone(job_id, error) /\ last_op' = done_posted(job_id, error)
    \/ \E job_id \in DOMAIN relays : RelayStart(job_id) /\ last_op' = streamed(job_id)
    \/ \E job_id \in DOMAIN relays : RelayAfterYield(job_id) /\ last_op' = streamed(job_id)
    \/ \E job_id \in DOMAIN relays : RelayAfterSleep(job_id) /\ last_op' = streamed(job_id)
    \/ \E job_id \in DOMAIN relays :
           RelayAfterTimeout(job_id) /\ last_op' = streamed(job_id)
    \/ \E job_id \in DOMAIN relays :
           RelayAfterFinalYield(job_id) /\ last_op' = streamed(job_id)

SpecRelay == Init /\ [][NextRelay]_vars

(***************************************************************************)
(* SpecRelayFair: SpecRelay where the event loop keeps running every       *)
(* stream_chunks generator: a generator that can be resumed (its sleep is  *)
(* over, or the response took the chunk it yielded) is resumed.            *)
(***************************************************************************)
SpecRelayFair ==
    Init /\ [][NextRelay]_vars
         /\ \A job_id \in JobIds : WF_vars(job_id \in DOMAIN relays /\ RelayStep(job_id))

(***************************************************************************)
(* SpecIngress: the chunk and done posts of workers, for job_ids the       *)
(* server knows and for job_ids it does not, in any order and any number   *)
(* of times.  Every step records in last_op which request was handled and  *)
(* what the handler found before it ran.                                   *)
(***************************************************************************)
IngressRegistrations ==
    {[node_id |-> "W1", models |-> <<"a">>, concordium_address |-> "addr1"]}

\* what a chunk says does not matter to these handlers: one chunk text
IngressChunks == {Token("x")}

\* the job_ids of posts: every job /inference has issued, and an unknown one
IngressJobIds == DOMAIN job_queue.jobs \cup {MaxJobTime + 1}

NextIngress ==
    \/ Advance(MaxJobTime) /\ last_op' = [op |-> "tick"]
    \/ \E registration \in IngressRegistrations :
           /\ registration.node_id \notin DOMAIN registry.nodes
           /\ RegisterNode(registration)
           /\ last_op' = [op |-> "register_node"]
    \/ \E model \in Models :
           Inference(model) /\ last_op' = [op |-> "inference", model |-> model]
    \/ \E job_id \in IngressJobIds : \E chunk \in IngressChunks :
           ReceiveChunk(job_id, chunk) /\ last_op' = received(job_id)
    \/ \E job_id \in IngressJobIds : \E error \in Errors :
           MarkJobDone(job_id, error) /\ last_op' = done_posted(job_id, error)

SpecIngress == Init /\ [][NextIngress]_vars

(***************************************************************************)
(* SpecLiveness: registrations, push channels and the health_check_task.   *)
(* A worker answers the probe or not; a stream is idle long enough for a   *)
(* heartbeat or not.  last_op records what each run of the task pruned.    *)
(***************************************************************************)
LivenessRegistrations ==
    {[node_id |-> "W1", models |-> <<"a">>, concordium_address |-> "addr1"],
     [node_id |-> "W1", models |-> <<"b">>, concordium_address |-> "addr1"],
     [node_id |-> "W2", models |-> <<"a">>, concordium_address |-> "addr1"]}

health_checked ==
    [op |-> "health_check_task",
     pruned |-> DOMAIN registry.nodes \ DOMAIN registry'.nodes]

NextLiveness ==
    \/ HealthOnTime /\ Advance(MaxTime) /\ Quiet
    \/ \E registration \in LivenessRegistrations : RegisterNode(registration) /\ Quiet
    \/ \E node_id \in NodeIds : StreamOpen(node_id) /\ Quiet
    \/ \E sid \in DOMAIN streams : StreamHeartbeat(sid) /\ Quiet
    \/ \E sid \in DOMAIN streams : StreamClose(sid) /\ Quiet
    \/ \E node_id \in NodeIds : \E models \in PollLists : Poll(node_id, models) /\ Quiet
    \/ \E order \in Orders(DOMAIN registry.nodes) :
           HealthWake(order) /\ last_op' = health_checked
    \/ \E ok \in BOOLEAN : HealthProbeDone(ok) /\ last_op' = health_checked

SpecLiveness == Init /\ [][NextLiveness]_vars

(***************************************************************************)
(* SpecLedger: the chunk and done posts of one job, whose chunks are the   *)
(* lines execute_job of node.py sends: the metadata line, token lines and  *)
(* the final line with token_counts.  Workers register, also under a new   *)
(* payout address.  Every step records the request in last_op.             *)
(***************************************************************************)
\* json.dumps({"node_id": NODE_ID, "node_url": ..., "metadata": True})
Metadata(node_id) == [node_id |-> node_id, node_url |-> "url", metadata |-> TRUE]

\* json.dumps({"done": True, "token_counts": token_counts})
Final(token_counts) == [done |-> TRUE, token_counts |-> token_counts]

\* token_counts of the final line: the counts of ollama's last chunk, with
\* total_tokens their sum, or {} when the stream ended without one
TokenCounts ==
    {[prompt_tokens |-> 5, completion_tokens |-> 1, total_tokens |-> 5 + 1],
     EmptyDict}

LedgerChunks ==
    {Metadata(node_id) : node_id \in NodeIds}
        \cup {Final(token_counts) : token_counts \in TokenCounts}
        \cup {Token("x")}

LedgerRegistrations ==
    {[node_id |-> "W1", models |-> <<"a">>, concordium_address |-> "addr1"],
     [node_id |-> "W1", models |-> <<"a">>, concordium_address |-> "addr2"],
     [node_id |-> "W2", models |-> <<"a">>, concordium_address |-> "addr2"]}

NextLedger ==
    \/ \E registration \in LedgerRegistrations :
           RegisterNode(registration) /\ last_op' = [op |-> "register_node"]
    \/ /\ db = EmptyDict
       /\ Inference("a")
       /\ last_op' = [op |-> "inference", model |-> "a"]
    \/ \E job_id \in DOMAIN db : \E chunk \in LedgerChunks :
           ReceiveChunk(job_id, chunk) /\ last_op' = received(job_id)
    \/ \E job_id \in DOMAIN db : \E error \in Errors :
           MarkJobDone(job_id, error) /\ last_op' = done_posted(job_id, error)

SpecLedger == Init /\ [][NextLedger]_vars

(***************************************************************************)
(* SpecTake: requesters and polling workers.  One worker serves both       *)
(* models; no worker opens /stream, so every job waits in its FIFO.        *)
(* Several requests can arrive within one reading of the clock.            *)
(***************************************************************************)
TakeRegistrations ==
    {[node_id |-> "W1", models |-> <<"a", "b">>, concordium_address |-> "addr1"]}

NextTake ==
    \/ Advance(MaxJobTime) /\ last_op' = [op |-> "tick"]
    \/ \E registration \in TakeRegistrations :
           RegisterNode(registration) /\ last_op' = [op |-> "register_node"]
    \/ \E model \in Models : Inference(model) /\ last_op' = inferred(model)
    \/ \E node_id \in NodeIds : \E models \in PollLists :
           Poll(node_id, models) /\ last_op' = polled(node_id, models)

SpecTake == Init /\ [][NextTake]_vars

(***************************************************************************)
(* SpecChannel: what goes through the push channel of one worker.  The     *)
(* worker registers once, opens /stream, closes it and opens it again,     *)
(* and reads its events; jobs are pushed; the worker posts its metadata    *)
(* chunk and then done, as execute_job does, after which the ledger row    *)
(* names it and the payment a client confirms, once for a job, is put on   *)
(* its channel.                                                            *)
(***************************************************************************)
ChannelRegistrations ==
    {[node_id |-> "W1", models |-> <<"a">>, concordium_address |-> "addr1"]}

NextChannel ==
    \/ Advance(MaxJobTime) /\ Quiet
    \/ \E registration \in ChannelRegistrations :
           /\ registration.node_id \notin DOMAIN registry.nodes
           /\ RegisterNode(registration)
           /\ Quiet
    \/ \E registration \in ChannelRegistrations :
           /\ registration.node_id \notin connected(sse_connections)
           /\ StreamOpen(registration.node_id)
           /\ Quiet
    \/ \E sid \in DOMAIN streams : StreamEvent(sid) /\ Quiet
    \/ \E sid \in DOMAIN streams : StreamClose(sid) /\ Quiet
    \/ Inference("a") /\ Quiet
    \/ \E job_id \in DOMAIN pushed :
           /\ get_chunks(job_queue, job_id) = <<>>
           /\ ReceiveChunk(job_id, Metadata(pushed[job_id].node_id))
           /\ Quiet
    \/ \E job_id \in DOMAIN pushed :
           /\ get_chunks(job_queue, job_id) # <<>>
           /\ ~is_done(job_queue, job_id)
           /\ MarkJobDone(job_id, None)
           /\ Quiet
    \/ \E confirmation \in Confirmations : \E raises \in BOOLEAN :
           /\ confirmation.job_id \notin DOMAIN payments
           /\ PaymentConfirmed(confirmation, raises)
           /\ Quiet

SpecChannel == Init /\ [][NextChannel]_vars

(***************************************************************************)
(* SpecDisconnect: one worker that registers once and opens and closes     *)
(* /stream, also a second time while the first is open; requesters; the    *)
(* health_check_task.                                                      *)
(***************************************************************************)
NextDisconnect ==
    \/ HealthOnTime /\ Advance(MaxTime) /\ Quiet
    \/ \E registration \in ChannelRegistrations :
           /\ registration.node_id \notin DOMAIN registry.nodes
           /\ RegisterNode(registration)
           /\ Quiet
    \/ \E registration \in ChannelRegistrations :
           StreamOpen(registration.node_id) /\ Quiet
    \/ \E sid \in DOMAIN streams : StreamClose(sid) /\ Quiet
    \/ Inference("a") /\ Quiet
    \/ \E order \in Orders(DOMAIN registry.nodes) : HealthWake(order) /\ Quiet
    \/ \E ok \in BOOLEAN : HealthProbeDone(ok) /\ Quiet

SpecDisconnect == Init /\ [][NextDisconnect]_vars

(***************************************************************************)
(* SpecPosting: a worker that registers once and then only posts chunks    *)
(* for a job: it opens no stream, does not poll and answers no probe.      *)
(* The metadata line of its job names it.  last_op records each chunk      *)
(* post with the time of the post, and what each run of the liveness loop  *)
(* pruned.                                                                 *)
(***************************************************************************)
PostingChunks == {Metadata("W1"), Token("x")}

posted(job_id) == [op |-> "receive_chunk", job_id |-> job_id, at |-> now]

NextPosting ==
    \/ HealthOnTime /\ Advance(MaxTime) /\ Quiet
    \/ \E registration \in ChannelRegistrations :
           /\ registration.node_id \notin DOMAIN registry.nodes
           /\ RegisterNode(registration)
           /\ last_op' = [op |-> "register_node"]
    \/ /\ db = EmptyDict
       /\ Inference("a")
       /\ last_op' = inferred("a")
    \/ \E job_id \in DOMAIN db : \E chunk \in PostingChunks :
           ReceiveChunk(job_id, chunk) /\ last_op' = posted(job_id)
    \/ \E order \in Orders(DOMAIN registry.nodes) :
           HealthWake(order) /\ last_op' = health_checked
    \/ HealthProbeDone(FALSE) /\ last_op' = health_checked

SpecPosting == Init /\ [][NextPosting]_vars

(***************************************************************************)
(* SpecProbe: two workers that register and never open /stream, so that    *)
(* the health_check_task probes each of them in every scan.  last_op       *)
(* records each probe: the node probed, how the GET ended, and the scan's  *)
(* list of nodes still to visit.                                           *)
(***************************************************************************)
probed(outcome) ==
    [op |-> "probe", node_id |-> Head(health.todo), outcome |-> outcome,
     rest |-> Tail(health.todo)]

NextProbe ==
    \/ HealthOnTime /\ Advance(MaxTime) /\ last_op' = [op |-> "tick"]
    \/ \E registration \in PushRegistrations :
           RegisterNode(registration) /\ last_op' = [op |-> "register_node"]
    \/ \E order \in Orders(DOMAIN registry.nodes) :
           HealthWake(order) /\ last_op' = health_checked
    \/ \E outcome \in ProbeOutcomes : HealthProbe(outcome) /\ last_op' = probed(outcome)

SpecProbe == Init /\ [][NextProbe]_vars

(***************************************************************************)
(* SpecEntry: every operation that touches the Registry.  W1 registers;    *)
(* W1 and W2, which never registers, send heartbeats, open, hold and close *)
(* /stream (one connection each) and poll; one job is requested, and a     *)
(* worker posts for it the metadata line that names W2, and done; the      *)
(* health_check_task runs.                                                 *)
(* last_op records the operation of each step.                             *)
(***************************************************************************)
EntryChunks == {Metadata("W2")}

requested(op) == [op |-> op]

heartbeat(node_id) == [op |-> "heartbeat", node_id |-> node_id]

NextEntry ==
    \/ HealthOnTime /\ Advance(MaxTime) /\ last_op' = requested("tick")
    \/ \E registration \in ChannelRegistrations :
           RegisterNode(registration) /\ last_op' = requested("register_node")
    \/ \E node_id \in NodeIds :
           UpdateNodeHeartbeat(node_id) /\ last_op' = heartbeat(node_id)
    \/ \E node_id \in NodeIds \ connected(sse_connections) :
           StreamOpen(node_id) /\ last_op' = requested("stream")
    \/ \E sid \in DOMAIN streams : StreamHeartbeat(sid) /\ last_op' = requested("stream")
    \/ \E sid \in DOMAIN streams : StreamClose(sid) /\ last_op' = requested("stream")
    \/ \E node_id \in NodeIds :
           Poll(node_id, <<"a">>) /\ last_op' = requested("poll")
    \/ /\ db = EmptyDict
       /\ Inference("a")
       /\ last_op' = requested("inference")
    \/ \E job_id \in DOMAIN db : \E chunk \in EntryChunks :
           /\ get_chunks(job_queue, job_id) = <<>>
           /\ ReceiveChunk(job_id, chunk)
           /\ last_op' = requested("receive_chunk")
    \/ \E job_id \in DOMAIN db :
           /\ ~is_done(job_queue, job_id)
           /\ MarkJobDone(job_id, None)
           /\ last_op' = requested("mark_job_done")
    \/ \E order \in Orders(DOMAIN registry.nodes) :
           HealthWake(order) /\ last_op' = requested("health_check_task")
    \/ \E outcome \in ProbeOutcomes :
           HealthProbe(outcome) /\ last_op' = requested("health_check_task")

SpecEntry == Init /\ [][NextEntry]_vars

(***************************************************************************)
(* SpecCounts: one job whose final line carries the token_counts that      *)
(* execute_job of node.py computes from the last chunk of ollama's stream, *)
(* and GET /jobs/{job_id}.  last_op records each request and, for          *)
(* GET /jobs/{job_id}, the body returned.                                  *)
(***************************************************************************)
\* the last chunk of ollama's stream: done, with the counts ollama reports,
\* either of which it may leave out
OllamaDoneChunks ==
    {[done |-> TRUE],
     [done |-> TRUE, prompt_eval_count |-> 5],
     [done |-> TRUE, eval_count |-> 1],
     [done |-> TRUE, prompt_eval_count |-> 5, eval_count |-> 1]}

\* token_counts as execute_job builds it from that chunk (node.py, 179-185)
token_counts_of(chunk) ==
    [prompt_tokens |-> Get(chunk, "prompt_eval_count", 0),
     completion_tokens |-> Get(chunk, "eval_count", 0),
     total_tokens |-> Get(chunk, "prompt_eval_count", 0) + Get(chunk, "eval_count", 0)]

\* the lines of a job: the metadata line, and the final line with the counts
\* of a done chunk or, when the stream ended without one, with {}
CountsChunks ==
    {Metadata("W1"), Final(EmptyDict)}
        \cup {Final(token_counts_of(chunk)) : chunk \in OllamaDoneChunks}

NextCounts ==
    \/ \E registration \in ChannelRegistrations :
           /\ registration.node_id \notin DOMAIN registry.nodes
           /\ RegisterNode(registration)
           /\ last_op' = [op |-> "register_node"]
    \/ /\ db = EmptyDict
       /\ Inference("a")
       /\ last_op' = inferred("a")
    \/ \E job_id \in DOMAIN db : \E chunk \in CountsChunks :
           ReceiveChunk(job_id, chunk) /\ last_op' = received(job_id)
    \/ \E job_id \in DOMAIN db : \E error \in Errors :
           MarkJobDone(job_id, error) /\ last_op' = done_posted(job_id, error)
    \/ \E job_id \in JobIds : GetJob(job_id) /\ last_op' = job_read(job_id)

SpecCounts == Init /\ [][NextCounts]_vars

(***************************************************************************)
(* SpecReconnect: one worker that registers once and opens /stream, also   *)
(* again while an earlier connection is still open (the server has not yet *)
(* noticed that the client is gone), and whose connections close in any    *)
(* order; requesters.  last_op keeps the open connections in the order     *)
(* they were opened.                                                       *)
(***************************************************************************)
\* the open /stream requests, oldest first
stream_order == IF "order" \in DOMAIN last_op THEN last_op.order ELSE <<>>

stream_opened ==
    [op |-> "stream",
     order |-> Append(stream_order, CHOOSE sid \in DOMAIN streams' : sid \notin DOMAIN streams)]

stream_closed(sid) ==
    [op |-> "stream",
     order |-> LET open(k) == k # sid IN SelectSeq(stream_order, open)]

NextReconnect ==
    \/ Advance(MaxJobTime) /\ Quiet
    \/ \E registration \in ChannelRegistrations :
           /\ registration.node_id \notin DOMAIN registry.nodes
           /\ RegisterNode(registration)
           /\ Quiet
    \/ \E registration \in ChannelRegistrations :
           StreamOpen(registration.node_id) /\ last_op' = stream_opened
    \/ \E sid \in DOMAIN streams : StreamEvent(sid) /\ Quiet
    \/ \E sid \in DOMAIN streams : StreamClose(sid) /\ last_op' = stream_closed(sid)
    \/ Inference("a") /\ Quiet

SpecReconnect == Init /\ [][NextReconnect]_vars

(***************************************************************************)
(* SpecEligible: who gets a job pushed.  W1 registers for model a or for   *)
(* model b and W2 for model a; either opens /stream, registered or not,    *)
(* and closes it; a worker without a channel that fails its probes is      *)
(* pruned by the health_check_task; one job is requested, for model a.     *)
(***************************************************************************)
NextEligible ==
    \/ HealthOnTime /\ Advance(MaxTime) /\ Quiet
    \/ \E registration \in LivenessRegistrations : RegisterNode(registration) /\ Quiet
    \/ \E node_id \in NodeIds \ connected(sse_connections) : StreamOpen(node_id) /\ Quiet
    \/ \E sid \in DOMAIN streams : StreamClose(sid) /\ Quiet
    \/ db = EmptyDict /\ Inference("a") /\ Quiet
    \/ \E order \in Orders(DOMAIN registry.nodes) : HealthWake(order) /\ Quiet
    \/ HealthProbe(NoResponse) /\ Quiet

SpecEligible == Init /\ [][NextEligible]_vars

(***************************************************************************)
(* SpecSingle: two workers that serve model a, register, open /stream and  *)
(* stay connected, read their events and also poll; requesters.  last_op   *)
(* keeps the job_ids the /poll calls have returned so far, in order.       *)
(***************************************************************************)
\* the job_ids returned by /poll so far
poll_takes == IF "taken" \in DOMAIN last_op THEN last_op.taken ELSE <<>>

poll_taken(node_id, models) ==
    [op |-> "poll",
     taken |-> IF polled(node_id, models).status = 200
               THEN Append(poll_takes, polled(node_id, models).ret)
               ELSE poll_takes]

NextSingle ==
    \/ Advance(MaxJobTime) /\ Quiet
    \/ \E registration \in PushRegistrations :
           /\ registration.node_id \notin DOMAIN registry.nodes
           /\ RegisterNode(registration)
           /\ Quiet
    \/ \E node_id \in NodeIds \ connected(sse_connections) : StreamOpen(node_id) /\ Quiet
    \/ \E sid \in DOMAIN streams : StreamEvent(sid) /\ Quiet
    \/ Inference("a") /\ Quiet
    \/ \E node_id \in NodeIds :
           Poll(node_id, <<"a">>) /\ last_op' = poll_taken(node_id, <<"a">>)

SpecSingle == Init /\ [][NextSingle]_vars

(***************************************************************************)
(* SpecCursor: get_node_for_model between registrations and prunes.  W1    *)
(* registers for model a or for model b, W2 for model a; registering again *)
(* moves a node to the end of its list, and prune_stale_nodes shortens the *)
(* lists under the cursor.  last_op records each call of                   *)
(* get_node_for_model: the cursor it found and the value it returned.      *)
(***************************************************************************)
picked(model) ==
    [op |-> "get_node_for_model", model |-> model,
     cursor |-> Get(registry.round_robin_index, model, 0),
     ret |-> get_node_for_model(registry, model).ret]

NextCursor ==
    \/ Advance(MaxTime) /\ last_op' = [op |-> "tick"]
    \/ \E registration \in LivenessRegistrations :
           RegisterNode(registration) /\ last_op' = [op |-> "register_node"]
    \/ \E model \in Models : GetNodeForModel(model) /\ last_op' = picked(model)
    \/ PruneStaleNodes /\ last_op' = [op |-> "prune_stale_nodes"]

SpecCursor == Init /\ [][NextCursor]_vars

(***************************************************************************)
(* Claims about the Registry (checked under SpecRegistry).                 *)
(***************************************************************************)
index_of(model) == Get(registry.model_to_nodes, model, <<>>)

Count(list, x) == Cardinality({i \in DOMAIN list : list[i] = x})

Windows(run, n) == {i \in 1..Len(run) : i + n - 1 <= Len(run)}

\* C4: with N > 0 nodes in model_to_nodes[m], any N consecutive
\* get_node_for_model(m) calls with no register or prune in between return
\* each of the N nodes exactly once, and any 2N consecutive calls return each
\* node exactly twice, whatever the cursor was before the first of them.
C4_FairRoundRobin ==
    last_op.op = "get_node_for_model" =>
        LET list == index_of(last_op.model)
            N == Len(list)
            run == last_op.rets
        IN /\ \A i \in Windows(run, N) : \A n \in Range(list) :
                  Count(SubSeq(run, i, i + N - 1), n) = 1
           /\ \A i \in Windows(run, 2 * N) : \A n \in Range(list) :
                  Count(SubSeq(run, i, i + 2 * N - 1), n) = 2

\* C4 witness: 2N = 4 consecutive picks over a list of two nodes, the first
\* of them made with the cursor on the second node.
C4_Witness ==
    /\ last_op.op = "get_node_for_model"
    /\ Len(index_of(last_op.model)) = 2
    /\ Len(last_op.rets) = 4
    /\ last_op.rets[1] = index_of(last_op.model)[2]

\* C6: a node_id n is in model_to_nodes[m] if and only if n is in nodes and m
\* is in that node's current models list.
C6_IndexConsistent ==
    \A n \in NodeIds : \A m \in Models :
        n \in Range(index_of(m)) <=>
            (n \in DOMAIN registry.nodes /\ m \in Range(registry.nodes[n].models))

\* C7: after register_node for node W, model_to_nodes[m] contains W exactly
\* once for every model of the new registration and not at all for any other
\* model (the entries of the previous registration are gone).
C7_RegisterReplacesIndexEntries ==
    last_op.op = "register_node" =>
        \A m \in Models :
            Count(index_of(m), last_op.node_id) =
                IF m \in Range(registry.nodes[last_op.node_id].models) THEN 1 ELSE 0

NoDuplicateEntries ==
    \A m \in Models : \A n \in NodeIds : Count(index_of(m), n) <= 1

SameRegistrationKeepsLengths ==
    (last_op'.op = "register_node" /\ last_op'.same) =>
        \A m \in Models :
            Len(Get(registry'.model_to_nodes, m, <<>>)) = Len(index_of(m))

\* C8: after any sequence of register calls every model_to_nodes[m] holds each
\* node_id at most once, and registering a present node_id again with the same
\* set of models leaves the length of every model_to_nodes[m] unchanged.
C8_NoDuplicatesOnReRegistration ==
    []NoDuplicateEntries /\ [][SameRegistrationKeepsLengths]_vars

\* C8 witness: a node registered again with the same models, a repeated name
\* among them, beside another node serving that model.
C8_Witness ==
    /\ last_op.op = "register_node"
    /\ last_op.same
    /\ registry.nodes[last_op.node_id].models = <<"a", "a">>
    /\ Len(index_of("a")) = 2

\* C9: prune_stale_nodes removes exactly the nodes whose last_seen is older
\* than the timeout: afterwards each of them is absent from nodes and from
\* every model_to_nodes[m], and every other node is still in nodes and in the
\* list of each of its models.
C9_PruneRemovesExactlyStale ==
    [][PruneStaleNodes =>
        LET stale == stale_node_ids(registry, HealthCheckInterval * 2, now) IN
        /\ \A n \in stale :
              /\ n \notin DOMAIN registry'.nodes
              /\ \A m \in Models : n \notin Range(Get(registry'.model_to_nodes, m, <<>>))
        /\ \A n \in DOMAIN registry.nodes \ stale :
              /\ n \in DOMAIN registry'.nodes
              /\ \A m \in Range(registry.nodes[n].models) :
                    n \in Range(Get(registry'.model_to_nodes, m, <<>>))]_vars

(***************************************************************************)
(* Claims about jobs and dispatch.                                         *)
(***************************************************************************)
status_of(jq, job_id) == jq.jobs[job_id].status

StatusSteps ==
    {<<PENDING, IN_PROGRESS>>, <<IN_PROGRESS, COMPLETED>>, <<IN_PROGRESS, FAILED>>}

\* C1: the status of a job only moves along Pending -> InProgress ->
\* {Completed | Failed}: a job starts Pending (or InProgress when the handler
\* that created it pushed it at once), no step moves it backward and no step
\* skips InProgress.  (SpecQueue)
C1_StatusMonotone ==
    [][\A j \in DOMAIN job_queue'.jobs :
          IF j \in DOMAIN job_queue.jobs
          THEN \/ status_of(job_queue', j) = status_of(job_queue, j)
               \/ <<status_of(job_queue, j), status_of(job_queue', j)>> \in StatusSteps
          ELSE status_of(job_queue', j) \in {PENDING, IN_PROGRESS}]_vars

job_chunks_of(out) ==
    LET is_job_chunk(c) == c # TimeoutChunk IN SelectSeq(out, is_job_chunk)

\* C2: once a job is terminal and the stream_chunks generator of its
\* /inference request has finished, the job chunks it yielded are the chunks
\* appended to the job, each exactly once and in append order.  (SpecRelay)
C2_RelayEmitsEveryChunk ==
    \A j \in DOMAIN relays :
        (is_done(job_queue, j) /\ relays[j].pc = "closed") =>
            job_chunks_of(relays[j].out) = get_chunks(job_queue, j)

\* C3: a job that was put on a worker's push channel is in no per-model
\* pending list, so no later /poll can take it.  (SpecPush)
C3_PushedJobsBypassFifo ==
    \A j \in DOMAIN pushed : \A m \in DOMAIN job_queue.pending :
        j \notin Range(job_queue.pending[m])

\* C5: pushes rotate over the connected workers that serve the model: of two
\* jobs for one model pushed one after the other while the same two or more
\* such workers are connected, the second goes to another worker than the
\* first.  (SpecPush)
C5_PushRoundRobin ==
    \A j1 \in DOMAIN pushed : \A j2 \in DOMAIN pushed :
        (/\ j1 < j2
         /\ ~ \E k \in DOMAIN pushed : j1 < k /\ k < j2
         /\ pushed[j1].model = pushed[j2].model
         /\ pushed[j1].eligible = pushed[j2].eligible
         /\ Cardinality(pushed[j1].eligible) >= 2)
        => pushed[j1].node_id # pushed[j2].node_id

advertised(reg, model) ==
    \E n \in DOMAIN reg.nodes : model \in Range(reg.nodes[n].models)

\* C10: when no node of the registry advertises the requested model,
\* /inference answers 404 and changes nothing: no ledger row, no runtime job,
\* nothing enqueued, nothing pushed.  (SpecQueue)
C10_NoCapableNode ==
    [][\A m \in Models :
          (Inference(m) /\ ~advertised(registry, m)) =>
              /\ inference_status(m) = 404
              /\ UNCHANGED <<registry, job_queue, sse_connections, streams, db, payments, relays,
                             pushed>>]_vars

(***************************************************************************)
(* Claims about chunk and done ingress (checked under SpecIngress).        *)
(***************************************************************************)
\* C11: once done has been called for a job its chunk list is immutable: a
\* later POST /jobs/{id}/chunk for it leaves the chunk list and all other job
\* state (the job table, the pending lists, the ledger) unchanged.
C11_ChunksImmutableAfterDone ==
    [][(last_op'.op = "receive_chunk" /\ last_op'.was_done) =>
          UNCHANGED <<job_queue, db, payments>>]_vars

\* C12: done on a job that is already terminal, with any error argument,
\* leaves its runtime status, error field and terminal flag unchanged.
C12_DoneIdempotent ==
    [][(last_op'.op = "mark_job_done" /\ last_op'.was_done) =>
          LET j == last_op'.job_id IN
          /\ job_queue'.jobs[j].status = job_queue.jobs[j].status
          /\ job_queue'.jobs[j].error = job_queue.jobs[j].error
          /\ job_queue'.jobs[j].done = job_queue.jobs[j].done]_vars

\* C13: the ledger records a terminal outcome once: after a done call has set
\* a job's ledger row to completed or failed, no later done call for the same
\* job_id changes the row (status, completed_at, node and token fields).
C13_LedgerRecordsOnce ==
    [][(/\ last_op'.op = "mark_job_done"
        /\ last_op'.job_id \in DOMAIN db
        /\ db[last_op'.job_id].status \in {"completed", "failed"}) =>
          db'[last_op'.job_id] = db[last_op'.job_id]]_vars

\* C14: done on a known job that is not terminal marks it terminal and sets
\* its status to Failed iff an error argument is present (an empty string is
\* present), otherwise Completed; the ledger row gets the same outcome.
C14_FailedIffErrorPresent ==
    [][(last_op'.op = "mark_job_done" /\ last_op'.known /\ ~last_op'.was_done) =>
          LET j == last_op'.job_id
              present == last_op'.error # None
          IN /\ job_queue'.jobs[j].done
             /\ job_queue'.jobs[j].status = IF present THEN FAILED ELSE COMPLETED
             /\ db'[j].status = IF present THEN "failed" ELSE "completed"]_vars

\* C15: a chunk post or done post for a job_id that is neither in the job
\* table nor in the ledger is dropped silently: the handler returns its
\* success body and the job table, the pending lists, the ledger and the
\* registry are unchanged.
C15_UnknownJobDropped ==
    [][(last_op'.op \in {"receive_chunk", "mark_job_done"} /\ ~last_op'.known) =>
          /\ last_op'.ret \in {"received", "done"}
          /\ UNCHANGED <<job_queue, db, payments, registry>>]_vars

\* C15 witness: done was posted for an unknown job_id while another job is
\* in the table, and a chunk post for an unknown job_id is the other case.
C15_Witness ==
    /\ last_op.op = "mark_job_done"
    /\ ~last_op.known
    /\ last_op.error = "boom"
    /\ DOMAIN job_queue.jobs # {}

(***************************************************************************)
(* Claims about the relay timeout (checked under SpecRelay).               *)
(***************************************************************************)
timed_out(r) == \E i \in DOMAIN r.out : r.out[i] = TimeoutChunk

TimeoutChunkIsLast ==
    \A j \in DOMAIN relays : \A i \in DOMAIN relays[j].out :
        relays[j].out[i] = TimeoutChunk => i = Len(relays[j].out)

TimeoutStep ==
    \A j \in DOMAIN relays :
        (~timed_out(relays[j]) /\ timed_out(relays'[j])) =>
            /\ ~is_done(job_queue, j) => relays'[j].pc = "timeout_yield"
            /\ job_queue'.jobs[j] = job_queue.jobs[j]

ClosesAfterTimeout ==
    \A j \in DOMAIN relays :
        (relays[j].pc = "timeout_yield" /\ relays'[j] # relays[j]) =>
            relays'[j].pc = "closed"

\* C16: when the timeout deadline passes the relay yields the chunk
\* {"error": "Job timeout", "done": true} as the last chunk of the response
\* (no job chunk follows it) and closes, and the timeout leaves the job's
\* runtime entry (status, terminal flag, chunk list) unchanged.
C16_TimeoutChunkFinal ==
    []TimeoutChunkIsLast /\ [][TimeoutStep /\ ClosesAfterTimeout]_vars

\* C17: every stream_chunks generator of an accepted /inference request
\* finishes, whatever the worker does: because the job became terminal or
\* because the timeout count was exceeded.  (SpecRelayFair)
C17_RelayCloses ==
    \A job_id \in JobIds :
        (job_id \in DOMAIN relays) ~>
            (job_id \in DOMAIN relays /\ relays[job_id].pc = "closed")

\* C17 witness: a generator that finished although the worker posted neither
\* a chunk nor done.
C17_Witness ==
    \E job_id \in DOMAIN relays :
        /\ relays[job_id].pc = "closed"
        /\ timed_out(relays[job_id])
        /\ ~is_done(job_queue, job_id)
        /\ get_chunks(job_queue, job_id) = <<>>

TimedOutJobRemains ==
    \A j \in DOMAIN relays :
        timed_out(relays[j]) => j \in DOMAIN job_queue.jobs /\ j \in DOMAIN db

DoneAfterTimeoutAccepted ==
    (/\ last_op'.op = "mark_job_done"
     /\ last_op'.error = None
     /\ last_op'.job_id \in DOMAIN relays
     /\ timed_out(relays[last_op'.job_id])) =>
        LET j == last_op'.job_id IN
        /\ job_queue'.jobs[j].done
        /\ job_queue'.jobs[j].status = COMPLETED
        /\ db'[j].status = "completed"

\* C18: after a relay timeout the job's runtime entry remains, and a later
\* done post without error is accepted: it marks the runtime job Completed
\* and sets the ledger row to completed.  (SpecRelay)
C18_DoneAfterTimeout ==
    []TimedOutJobRemains /\ [][DoneAfterTimeoutAccepted]_vars

\* C18 witness: the first done of a job arrived after its relay had timed out
\* and finished.
C18_Witness ==
    /\ last_op.op = "mark_job_done"
    /\ last_op.error = None
    /\ ~last_op.was_done
    /\ relays[last_op.job_id].pc = "closed"
    /\ timed_out(relays[last_op.job_id])
    /\ status_of(job_queue, last_op.job_id) = COMPLETED

C20_SilentWorkerPruned ==
    [][\A n \in DOMAIN registry.nodes \ DOMAIN registry'.nodes :
          /\ n \notin get_all_nodes(registry')
          /\ \A m \in Models :
                 (index_of(m) # <<>> /\ Range(index_of(m)) = {n}) =>
                     get_node_for_model(registry', m).ret = None]_vars

(***************************************************************************)
(* Claims about the ledger (checked under SpecLedger).                     *)
(***************************************************************************)
\* the line is a metadata chunk that names node_id
is_metadata(chunk, node_id) ==
    /\ Get(chunk, "metadata", FALSE) = TRUE
    /\ Get(chunk, "node_id", None) = node_id

has_token_counts(chunk) == "token_counts" \in DOMAIN chunk

\* the row holds the three counts of the chunk
counts_copied(db_job, chunk) ==
    /\ db_job.prompt_tokens = Get(chunk.token_counts, "prompt_tokens", NoCount)
    /\ db_job.completion_tokens = Get(chunk.token_counts, "completion_tokens", NoCount)
    /\ db_job.total_tokens = Get(chunk.token_counts, "total_tokens", NoCount)

\* C21: when done is posted for a job with a ledger row whose chunks hold a
\* metadata chunk naming node W and a chunk with token_counts, the row
\* afterwards has the terminal status, node_id = W, the three counts of that
\* chunk, and the payout address W has in the registry at that moment (the
\* address is not set when W is not in the registry).
C21_DoneAccounting ==
    [][\A job_id \in DOMAIN db :
          (last_op'.op = "mark_job_done" /\ last_op'.job_id = job_id) =>
              LET chunks == get_chunks(job_queue', job_id)
              IN \A node_id \in NodeIds :
                    ( /\ \E i \in DOMAIN chunks : is_metadata(chunks[i], node_id)
                      /\ \E i \in DOMAIN chunks : has_token_counts(chunks[i]) )
                    => /\ db'[job_id].status
                             = IF truthy(last_op'.error) THEN "failed" ELSE "completed"
                       /\ db'[job_id].node_id = node_id
                       /\ \E i \in DOMAIN chunks :
                              /\ has_token_counts(chunks[i])
                              /\ counts_copied(db'[job_id], chunks[i])
                       /\ db'[job_id].node_address
                             = IF node_id \in DOMAIN registry.nodes
                               THEN registry.nodes[node_id].concordium_address
                               ELSE db[job_id].node_address]_vars

(***************************************************************************)
(* Claims about the push channels (checked under SpecPush).                *)
(***************************************************************************)
\* C22: push channels are bounded: the number of undelivered messages in a
\* worker's channel never exceeds a fixed bound, so that a channel whose
\* worker reads nothing cannot hold every job the server accepts, however
\* many they are; the job that finds the channel full is queued only.
C22_PushChannelsBounded ==
    \A sid \in DOMAIN streams : Len(streams[sid].queue) < MaxJobs

(***************************************************************************)
(* Claims about job identity and the FIFOs (checked under SpecTake; C23    *)
(* under SpecIngress, whose handlers are those that write the ledger).     *)
(***************************************************************************)
\* C23: in every reachable state every job_id of the runtime job table has a
\* ledger row.
C23_RuntimeJobsHaveLedgerRows == DOMAIN job_queue.jobs \subseteq DOMAIN db

\* C23 witness: two jobs with their runtime entries and their rows, one of
\* them done
C23_Witness ==
    /\ Cardinality(DOMAIN job_queue.jobs) = 2
    /\ \E job_id \in DOMAIN job_queue.jobs :
           job_queue.jobs[job_id].done /\ db[job_id].status = "completed"

\* C24: an accepted /inference request receives a job_id no earlier request
\* received, however close together the two are handled: its runtime entry,
\* its chunk list and its ledger row are new, and those of the other jobs are
\* left as they are.
C24_JobIdsUnique ==
    [][(last_op'.op = "inference" /\ last_op'.status = 200) =>
          LET job_id == last_op'.job_id
          IN /\ job_id \notin DOMAIN job_queue.jobs
             /\ job_id \notin DOMAIN db
             /\ DOMAIN job_queue'.jobs = DOMAIN job_queue.jobs \cup {job_id}
             /\ DOMAIN db' = DOMAIN db \cup {job_id}
             /\ job_queue'.jobs[job_id].chunks = <<>>
             /\ \A other \in DOMAIN job_queue.jobs :
                    job_queue'.jobs[other] = job_queue.jobs[other]
             /\ \A other \in DOMAIN db : db'[other] = db[other]]_vars

\* C24 witness: two accepted requests, and a third one, handled within the
\* same reading of the clock as the second, that was refused
C24_Witness ==
    /\ Cardinality(DOMAIN job_queue.jobs) = 2
    /\ last_op.op = "inference"
    /\ last_op.status = 500
    /\ last_op.job_id \in DOMAIN job_queue.jobs

\* the FIFO of a model
fifo_of(q, model) == Get(q.pending, model, <<>>)

\* the positions of the caller's list whose FIFO is not empty
waiting(models) == {i \in DOMAIN models : fifo_of(job_queue, models[i]) # <<>>}

\* what get_next_job(models) is to do when some listed FIFO is not empty
TakesFirstWaiting(models, ret) ==
    LET first == CHOOSE i \in waiting(models) : \A k \in waiting(models) : i <= k
        model == models[first]
        job_id == Head(fifo_of(job_queue, model))
    IN /\ ret = job_id
       /\ fifo_of(job_queue', model) = Tail(fifo_of(job_queue, model))
       /\ \A m \in DOMAIN job_queue.pending \ {model} :
              fifo_of(job_queue', m) = fifo_of(job_queue, m)
       /\ job_queue'.jobs[job_id].status = IN_PROGRESS
       /\ \A other \in DOMAIN job_queue.jobs \ {job_id} :
              job_queue'.jobs[other] = job_queue.jobs[other]

\* a FIFO only loses its head and only grows at its end
FifoOrderKept ==
    \A model \in Models :
        LET before == fifo_of(job_queue, model)
            after == fifo_of(job_queue', model)
        IN \/ after = before
           \/ before # <<>> /\ after = Tail(before)
           \/ \E job_id \in JobIds : after = Append(before, job_id)

\* C25: take(models) scans the caller's list in order, pops the head of the
\* first FIFO that is not empty, marks that job InProgress in the same step
\* and returns it, or returns none and leaves the queue as it is when all the
\* listed FIFOs are empty; jobs queued for one model are handed out in the
\* order they were enqueued.
C25_TakeIsFifo ==
    [][/\ FifoOrderKept
       /\ last_op'.op = "poll" =>
              IF waiting(last_op'.models) = {}
              THEN last_op'.status = 204 /\ job_queue' = job_queue
              ELSE last_op'.status = 200
                      /\ TakesFirstWaiting(last_op'.models, last_op'.ret)]_vars

\* C25 witness: a poll for <<b, a>> took the older of two jobs queued for a
\* while the FIFO of b was empty
C25_Witness ==
    /\ last_op.op = "poll"
    /\ last_op.models = <<"b", "a">>
    /\ last_op.status = 200
    /\ last_op.ret = 0
    /\ fifo_of(job_queue, "a") = <<1>>
    /\ fifo_of(job_queue, "b") = <<>>

(***************************************************************************)
(* Claims about what a push channel delivers (checked under SpecChannel).  *)
(***************************************************************************)
\* the messages of a stream: those sent as events, then those still queued
messages(stream) == [i \in DOMAIN stream.out |-> stream.out[i].data] \o stream.queue

\* C26: the job and payment messages put on a worker's push channel are
\* emitted on its stream in the order they were put, none twice and none
\* dropped while the stream stays open: the events sent followed by the
\* messages still queued are always the messages put so far, in put order.
C26_ChannelIsFifo ==
    [][\A sid \in DOMAIN streams \cap DOMAIN streams' :
          streams'[sid].node_id = streams[sid].node_id =>
              /\ \/ messages(streams'[sid]) = messages(streams[sid])
                 \/ \E item \in {JobItem(now, model) : model \in Models}
                                  \cup {PaymentItem(c) : c \in Confirmations} :
                        /\ messages(streams'[sid]) = Append(messages(streams[sid]), item)
                        /\ streams'[sid].out = streams[sid].out
              /\ \E n \in 0..Len(streams[sid].queue) :
                    /\ Len(streams'[sid].out) = Len(streams[sid].out) + n
                    /\ n <= 1
              /\ \A i \in DOMAIN streams'[sid].out :
                    streams'[sid].out[i] = event_of(streams'[sid].out[i].data)]_vars

\* C26 witness: a stream that sent a job and then the payment notice of that
\* job, and holds a second job that was put after them
C26_Witness ==
    \E sid \in DOMAIN streams :
        /\ Len(streams[sid].out) = 2
        /\ streams[sid].out[1].event = "job"
        /\ streams[sid].out[2].event = "payment_received"
        /\ Len(streams[sid].queue) = 1

(***************************************************************************)
(* Claims about the registry and the push-channel table (checked under     *)
(* SpecLiveness).                                                          *)
(***************************************************************************)
\* a /stream connection went away in this step
closes(sid) == sid \in DOMAIN streams /\ sid \notin DOMAIN streams'

\* the liveness loop removed nodes in this step
prunes == DOMAIN registry.nodes \ DOMAIN registry'.nodes # {}

\* C27: tearing down a worker's push channel on disconnect leaves the
\* registry (nodes, model_to_nodes, cursors) unchanged, and prune leaves the
\* push-channel table unchanged: it removes no channel and closes none.
C27_RegistryAndChannelsIndependent ==
    [][/\ (\E sid \in DOMAIN streams : closes(sid)) => registry' = registry
       /\ prunes => sse_connections' = sse_connections /\ streams' = streams]_vars

\* C27 witness: the liveness loop pruned W2 while W1 held a channel; W2 then
\* opened a stream without registering, and W1's stream, the first one, was
\* closed: W1 is registered without a channel, W2 has a channel and no entry
C27_Witness ==
    /\ last_op.op = "health_check_task"
    /\ last_op.pruned = {"W2"}
    /\ DOMAIN streams = {2}
    /\ connected(sse_connections) = {"W2"}
    /\ DOMAIN registry.nodes = {"W1"}

(***************************************************************************)
(* Claims about disconnects (checked under SpecDisconnect).                *)
(***************************************************************************)
\* the node whose last_seen this step refreshed
refreshed(node_id) ==
    /\ node_id \in DOMAIN registry.nodes
    /\ node_id \in DOMAIN registry'.nodes
    /\ registry'.nodes[node_id].last_seen # registry.nodes[node_id].last_seen

\* C28: when a worker's stream connection closes its push channel is removed
\* from the channel table; a node_id without an entry in the table gets no
\* job pushed by /inference, and the liveness loop refreshes it only as the
\* node whose probe has just answered.
C28_ClosedChannelRemoved ==
    [][/\ \A sid \in DOMAIN streams :
              closes(sid) => streams[sid].node_id \notin connected(sse_connections')
       /\ \A job_id \in DOMAIN pushed' \ DOMAIN pushed :
              pushed'[job_id].node_id \in connected(sse_connections)
       /\ \A sid \in DOMAIN streams \cap DOMAIN streams' :
              streams'[sid].queue # streams[sid].queue =>
                  /\ streams[sid].node_id \in connected(sse_connections)
                  /\ sid = sse_get(sse_connections, streams[sid].node_id)
       /\ \A node_id \in NodeIds \ connected(sse_connections) :
              (health' # health /\ refreshed(node_id)) =>
                  health.pc = "probe" /\ Head(health.todo) = node_id]_vars

\* C28 witness: W1 held a channel with a job on it and closed its stream;
\* the next job stayed in the FIFO, and the liveness loop has come to probe
\* W1, whose last_seen nothing has refreshed since
C28_Witness ==
    /\ DOMAIN pushed = {0}
    /\ pushed[0].node_id = "W1"
    /\ Cardinality(DOMAIN job_queue.jobs) = 2
    /\ \E job_id \in DOMAIN job_queue.jobs : job_queue.jobs[job_id].status = PENDING
    /\ sse_connections = <<>>
    /\ health.pc = "probe"
    /\ Head(health.todo) = "W1"
    /\ registry.nodes["W1"].last_seen = 0
    /\ now > 0

(***************************************************************************)
(* Claims about last_seen (checked under SpecLiveness).                    *)
(***************************************************************************)
\* C29: last_seen never decreases for a node_id, over register, re-register,
\* the heartbeats of /stream and /poll, and the liveness loop's refreshes,
\* the clock not going backward: it is never ahead of the clock, a step
\* leaves it or raises it, and an entry made anew starts at the clock.
C29_LastSeenMonotone ==
    /\ [](\A node_id \in DOMAIN registry.nodes : registry.nodes[node_id].last_seen <= now)
    /\ [][/\ now' >= now
          /\ \A node_id \in DOMAIN registry'.nodes :
                IF node_id \in DOMAIN registry.nodes
                THEN registry'.nodes[node_id].last_seen
                         >= registry.nodes[node_id].last_seen
                ELSE registry'.nodes[node_id].last_seen = now']_vars

\* C29 witness: W1 was pruned and registered again, and its last_seen was
\* refreshed since
C29_Witness ==
    /\ last_op.op = "health_check_task"
    /\ last_op.pruned = {"W1"}
    /\ "W1" \in DOMAIN registry.nodes
    /\ registry.nodes["W1"].last_seen = now
    /\ now = MaxTime
    /\ sse_connections = <<>>

(***************************************************************************)
(* Claims about chunk posts and liveness (checked under SpecPosting).      *)
(***************************************************************************)
\* C30: a chunk post refreshes the posting worker's last_seen, so that a
\* registered worker that is posting chunks for a job is not pruned although
\* it has no open stream, does not poll and fails the health probes: a run
\* of the liveness loop that directly follows a chunk post, within the same
\* reading of the clock, prunes nobody (the worker is the only node).
C30_PostingWorkerNotPruned ==
    [][(last_op.op = "receive_chunk" /\ last_op.at = now /\ health' # health)
          => DOMAIN registry.nodes \subseteq DOMAIN registry'.nodes]_vars

(***************************************************************************)
(* Claims about the outcome of a health probe (checked under SpecProbe).   *)
(***************************************************************************)
\* the scan went on after the probe: it is suspended in the probe of the next
\* node of its list, or it has pruned and sleeps until the next interval
ScanGoesOn(rest) ==
    IF rest # <<>>
    THEN health'.pc = "probe" /\ health'.todo = rest
    ELSE /\ health'.pc = "sleep"
         /\ DOMAIN registry'.nodes
                = DOMAIN registry.nodes
                     \ stale_node_ids(registry, HealthCheckInterval * 2, now)

\* a probe that ended without a 2xx response changed nothing but what the
\* prune at the end of the scan removed, and the scan went on
ProbeFailureSilent ==
    (last_op'.op = "probe" /\ last_op'.outcome \notin 200..299) =>
        /\ \A n \in DOMAIN registry'.nodes : registry'.nodes[n] = registry.nodes[n]
        /\ registry' # registry => last_op'.rest = <<>>
        /\ registry'.round_robin_index = registry.round_robin_index
        /\ UNCHANGED health_unchanged
        /\ ScanGoesOn(last_op'.rest)

\* a probe that ended with a 2xx response refreshed the node's last_seen
Probe2xxRefreshes ==
    (last_op'.op = "probe" /\ last_op'.outcome \in 200..299
        /\ last_op'.node_id \in DOMAIN registry.nodes) =>
        /\ last_op'.node_id \in DOMAIN registry'.nodes
        /\ registry'.nodes[last_op'.node_id].last_seen = now

\* C31: for a registered node without an open push channel, any 2xx response
\* to GET {url}/health refreshes its last_seen, and any other outcome (another
\* status, a timeout, a connection error) leaves the registry unchanged and
\* does not stop the loop from probing the remaining nodes and pruning.
C31_ProbeOutcome == [][Probe2xxRefreshes /\ ProbeFailureSilent]_vars

(***************************************************************************)
(* Claims about who enters the Registry (checked under SpecEntry).         *)
(***************************************************************************)
\* the step added no node_id to nodes nor to a model_to_nodes list
NoEntryAdded ==
    /\ DOMAIN registry'.nodes \subseteq DOMAIN registry.nodes
    /\ \A model \in DOMAIN registry'.model_to_nodes :
           Range(registry'.model_to_nodes[model]) \subseteq Range(index_of(model))

\* C32: only register creates a registry entry: a heartbeat for an unknown
\* node_id changes nothing, and /stream, /poll, the chunk and done posts and
\* the health probes never add a node_id to nodes or to a model_to_nodes list.
C32_OnlyRegisterCreatesEntries ==
    [][/\ last_op'.op # "register_node" => NoEntryAdded
       /\ (last_op'.op = "heartbeat" /\ last_op'.node_id \notin DOMAIN registry.nodes)
              => UNCHANGED <<registry, outside_registry>>]_vars

\* C32 witness: a heartbeat of W2, which never registered, while W2 holds a
\* push channel and the ledger row of a finished job names it: W1 is still
\* the only node
C32_Witness ==
    /\ last_op = heartbeat("W2")
    /\ "W2" \in connected(sse_connections)
    /\ \E job_id \in DOMAIN db : db[job_id].node_id = "W2"
    /\ DOMAIN registry.nodes = {"W1"}
    /\ Range(index_of("a")) = {"W1"}

(***************************************************************************)
(* Claims about token counts (checked under SpecCounts).                   *)
(***************************************************************************)
both_counted(db_job) ==
    /\ db_job.status \in {"completed", "failed"}
    /\ db_job.prompt_tokens # NoCount
    /\ db_job.completion_tokens # NoCount

\* the row's total is the sum of its two counts
LedgerTotalIsSum ==
    \A job_id \in DOMAIN db :
        both_counted(db[job_id]) =>
            db[job_id].total_tokens
                = db[job_id].prompt_tokens + db[job_id].completion_tokens

\* the body of the last GET /jobs/{job_id} reports the three counts of the
\* row, the total their sum
ResponseTotalIsSum ==
    (last_op.op = "get_job" /\ last_op.status = 200 /\ both_counted(db[last_op.job_id])) =>
        LET token_counts == last_op.body.token_counts
        IN /\ DOMAIN token_counts = {"prompt_tokens", "completion_tokens", "total_tokens"}
           /\ token_counts.prompt_tokens = db[last_op.job_id].prompt_tokens
           /\ token_counts.completion_tokens = db[last_op.job_id].completion_tokens
           /\ token_counts.total_tokens
                 = token_counts.prompt_tokens + token_counts.completion_tokens

\* C33: for every job whose ledger row has both prompt_tokens and
\* completion_tokens non-null after completion, the row and the body of
\* GET /jobs/{job_id} satisfy total_tokens = prompt_tokens +
\* completion_tokens, the token_counts chunk being the one node.py produces.
C33_TotalIsSum == LedgerTotalIsSum /\ ResponseTotalIsSum

(***************************************************************************)
(* Claims about reconnecting workers (checked under SpecReconnect).        *)
(***************************************************************************)
\* the open connections of node_id, oldest first
connections_of(node_id) ==
    LET of_node(sid) == streams[sid].node_id = node_id IN SelectSeq(stream_order, of_node)

\* C34: whenever a worker has at least one open /stream connection, the
\* push-channel table holds for its node_id the queue that the most recently
\* opened of them reads: after a reconnect, the close of the older connection
\* leaves the newer connection's channel registered.
C34_NewestConnectionRegistered ==
    \A node_id \in NodeIds :
        LET open == connections_of(node_id) IN
        open # <<>> =>
            /\ node_id \in connected(sse_connections)
            /\ sse_get(sse_connections, node_id) = open[Len(open)]

(***************************************************************************)
(* Claims about the job table as a whole (checked under SpecQueue).        *)
(***************************************************************************)
\* C35: in every reachable state the terminal flag of a runtime job is true
\* if and only if its status is Completed or Failed: no operation leaves a
\* job with done = true and status Pending or InProgress.
C35_DoneIffTerminalStatus ==
    \A job_id \in DOMAIN job_queue.jobs :
        job_queue.jobs[job_id].done
            <=> job_queue.jobs[job_id].status \in {COMPLETED, FAILED}

\* the positions of job_id in the FIFOs: <<model, index>>
fifo_places(job_id) ==
    {<<model, i>> \in Models \X (1..MaxJobs) :
        i <= Len(fifo_of(job_queue, model)) /\ fifo_of(job_queue, model)[i] = job_id}

FifoEntriesKnown ==
    \A model \in DOMAIN job_queue.pending :
        \A job_id \in Range(job_queue.pending[model]) :
            job_id \in DOMAIN job_queue.jobs /\ job_queue.jobs[job_id].model = model

FifoEntriesOnce ==
    \A job_id \in JobIds : Cardinality(fifo_places(job_id)) <= 1

FifoEntriesPending ==
    \A model \in DOMAIN job_queue.pending :
        \A job_id \in Range(job_queue.pending[model]) :
            job_id \in DOMAIN job_queue.jobs /\ job_queue.jobs[job_id].status = PENDING

\* C36: in every reachable state every job_id stored in a per-model pending
\* FIFO has a runtime entry whose model is that FIFO's model and whose status
\* is Pending, and each job_id occurs at most once across all FIFOs.
C36_FifoEntriesArePending == FifoEntriesKnown /\ FifoEntriesPending /\ FifoEntriesOnce

(***************************************************************************)
(* Claims about the target of a push (checked under SpecEligible).         *)
(***************************************************************************)
\* C37: a job is put only on a push channel whose node_id is, at that moment,
\* in the registry with the job's model in its registered models list: a
\* worker that opened /stream without being registered, or that was pruned,
\* or that does not advertise the model, never gets the job pushed.
C37_PushTargetEligible ==
    [][\A sid \in DOMAIN streams \cap DOMAIN streams' :
          Len(streams'[sid].queue) > Len(streams[sid].queue) =>
              LET node_id == streams[sid].node_id
                  job == streams'[sid].queue[Len(streams'[sid].queue)]
              IN /\ node_id \in DOMAIN registry.nodes
                 /\ node_id \in DOMAIN registry'.nodes
                 /\ job.model \in Range(registry.nodes[node_id].models)]_vars

\* C37 witness: W2, pruned, holds the first channel of the table and W1,
\* registered for model a, the second: the job went past W2 to W1
C37_Witness ==
    /\ Len(sse_connections) = 2
    /\ sse_connections[1].node_id = "W2"
    /\ DOMAIN registry.nodes = {"W1"}
    /\ now = MaxTime
    /\ \E job_id \in DOMAIN pushed : pushed[job_id].node_id = "W1" /\ job_id = now
    /\ streams[sse_connections[1].sid].queue = <<>>
    /\ Len(streams[sse_connections[2].sid].queue) = 1

(***************************************************************************)
(* Claims about how often a job is handed out (checked under SpecSingle).  *)
(***************************************************************************)
\* the places of job_id in the push channels: <<sid, index>> over the events
\* sent and the messages still queued
push_places(job_id) ==
    {<<sid, i>> \in (DOMAIN streams) \X (1..MaxJobs) :
        /\ i <= Len(messages(streams[sid]))
        /\ messages(streams[sid])[i].job_id = job_id}

OnOneChannelAtMost ==
    \A job_id \in JobIds : Cardinality(push_places(job_id)) <= 1

PolledOnceAtMost ==
    \A i \in DOMAIN poll_takes : \A k \in DOMAIN poll_takes :
        poll_takes[i] = poll_takes[k] => i = k

\* a step puts at most one message on at most one channel
OnePutPerStep ==
    \A sid \in DOMAIN streams : \A other \in DOMAIN streams :
        (Len(streams'[sid].queue) > Len(streams[sid].queue)
            /\ Len(streams'[other].queue) > Len(streams[other].queue))
        => sid = other /\ Len(streams'[sid].queue) = Len(streams[sid].queue) + 1

\* C38: each accepted /inference request puts its job on at most one worker's
\* push channel, even when several connected workers advertise the model, and
\* a queued job popped by one /poll call is never returned by another.
C38_SinglePushPerJob ==
    [](OnOneChannelAtMost /\ PolledOnceAtMost) /\ [][OnePutPerStep]_vars

\* C38 witness: both workers are connected and serve model a; one job was
\* pushed to the first of them only, the other was queued before either had
\* connected and one /poll has returned it; a later /poll returned the other
C38_Witness ==
    /\ Len(sse_connections) = 2
    /\ DOMAIN registry.nodes = {"W1", "W2"}
    /\ Cardinality(DOMAIN job_queue.jobs) = 2
    /\ Cardinality(DOMAIN pushed) = 1
    /\ \A job_id \in DOMAIN pushed : Cardinality(push_places(job_id)) = 1
    /\ Len(poll_takes) = 2
    /\ poll_takes[1] \notin DOMAIN pushed

(***************************************************************************)
(* Claims about the round-robin cursor (checked under SpecCursor).         *)
(***************************************************************************)
\* C39: get_node_for_model(model) never indexes outside model_to_nodes[model]
\* and returns an element of the current list when it is not empty, for any
\* cursor left over from earlier picks, also after prune or re-registration
\* has shortened or reordered the list; it returns none exactly when the list
\* is missing or empty, and after a successful pick the stored cursor is in
\* 0..len-1.
C39_CursorSafe ==
    [][last_op'.op = "get_node_for_model" =>
          LET model == last_op'.model
              list == index_of(model)
          IN IF list = <<>>
             THEN last_op'.ret = None /\ registry' = registry
             ELSE /\ last_op'.ret # None
                  /\ \E i \in 1..Len(list) :
                         /\ i = (last_op'.cursor % Len(list)) + 1
                         /\ last_op'.ret = list[i]
                  /\ registry'.model_to_nodes = registry.model_to_nodes
                  /\ model \in DOMAIN registry'.round_robin_index
                  /\ registry'.round_robin_index[model] \in 0..(Len(list) - 1)]_vars

\* C39 witness: W1 was pruned from the list of model a while the cursor stood
\* on the second place; the next pick found cursor 1 with one node left and
\* returned that node
C39_Witness ==
    /\ last_op.op = "get_node_for_model"
    /\ last_op.model = "a"
    /\ last_op.cursor = 1
    /\ index_of("a") = <<"W2">>
    /\ last_op.ret = "W2"
    /\ DOMAIN registry.nodes = {"W2"}
    /\ registry.round_robin_index["a"] = 0

(***************************************************************************)
(* Claims about the order of relayed chunks (checked under SpecRelay).     *)
(***************************************************************************)
IsPrefix(s, t) == Len(s) <= Len(t) /\ s = SubSeq(t, 1, Len(s))

EmittedIsPrefix ==
    \A j \in DOMAIN relays :
        /\ IsPrefix(job_chunks_of(relays[j].out), get_chunks(job_queue, j))
        /\ relays[j].last_chunk_index <= Len(get_chunks(job_queue, j))

CursorNeverDecreases ==
    \A j \in DOMAIN relays :
        relays'[j].last_chunk_index >= relays[j].last_chunk_index

\* C40: at every moment of a relay's drain loop, also for a job that never
\* becomes terminal, the job chunks emitted so far (the timeout chunk left
\* out) are a prefix of the job's current chunk list, and the relay cursor
\* never exceeds the length of the chunk list nor decreases.
C40_RelayPrefix == []EmittedIsPrefix /\ [][CursorNeverDecreases]_vars

\* C40 witness: a job that is not terminal, with three chunks of which the
\* relay has emitted the first two, in two rounds of its loop, and nothing else
C40_Witness ==
    \E j \in DOMAIN relays :
        /\ ~is_done(job_queue, j)
        /\ Len(get_chunks(job_queue, j)) = 3
        /\ get_chunks(job_queue, j)[1] # get_chunks(job_queue, j)[2]
        /\ relays[j].last_chunk_index = 2
        /\ relays[j].timeout_count = 2
        /\ relays[j].out = SubSeq(get_chunks(job_queue, j), 1, 2)

====
